---- MODULE Spec2Model ----
(***************************************************************************)
(* Model of the invoice extractor: InvoiceSplitter.process_pdf             *)
(* (src/invoice_extraction/core/processor.py) with its segmentation loop,  *)
(* the in-session consolidation of groups that share an invoice number,    *)
(* the artifact loop and the status reports; the pure function             *)
(* merge_invoice_data; cli.main (src/cli.py) around one attempt; the run   *)
(* loop of SQSWorker (src/server_handler.py); the Lambda handler           *)
(* (src/invoice_extraction/handlers/lambda_handler.py); and the files:     *)
(* extract_pages_to_pdf, repair_pdf, the JSON records and the front-ends'  *)
(* temporary input.                                                        *)
(*                                                                         *)
(* The specifications share the variables:                                 *)
(*   Spec       process_pdf's segmentation loop, documents of 1..MaxPages  *)
(*              pages, the oracle free to answer anything on every call;   *)
(*   SpecLong   the same loop on documents longer than MAX_WINDOW pages,   *)
(*              the oracle free at the first cursor and failing afterwards;*)
(*   SpecMerge  merge_invoice_data applied to a bounded set of record      *)
(*              pairs;                                                     *)
(*   SpecAll    Spec and SpecMerge side by side;                           *)
(*   SpecLife   one attempt from cli.main to its exit code: metadata,      *)
(*              status reports, integrity check, repair, rasterization,    *)
(*              segmentation, artifacts, uploads and records, every        *)
(*              gateway free to fail;                                      *)
(*   SpecPair   two process_pdf calls for different attachments,           *)
(*              interleaved;                                               *)
(*   SpecWorker the run loop of the SQS worker with a stop signal that may *)
(*              arrive at any moment;                                      *)
(*   SpecSerial a record written with json.dump, read back and written     *)
(*              again;                                                     *)
(*   SpecShape  a pass whose oracle answers carry all, some or none of the *)
(*              fields, with the files it writes;                          *)
(*   SpecFiles  SpecShape and extract_pages_to_pdf on its own;             *)
(*   SpecLambda the Lambda handler on an event of at most LambdaRecords    *)
(*              records;                                                   *)
(*   SpecRedo   process_pdf called again for the same document, the        *)
(*              oracle's answer fixed per window;                          *)
(*   SpecRepair repair_pdf on paths of several shapes, with the file       *)
(*              system it reads and writes;                                *)
(*   SpecTemp   the temporary input file of the three front-ends over      *)
(*              TempAttempts attachments;                                  *)
(*   SpecGroup  group_pages_into_invoices on lists of at most GroupPages   *)
(*              analyses.                                                  *)
(***************************************************************************)
EXTENDS Integers, Sequences, FiniteSets, TLC

(* ------------------------------ bounds --------------------------------- *)

\* longest document of Spec
MaxPages == 3
\* SpecLong's documents have MAX_WINDOW + 1 .. MAX_WINDOW + LongExtra pages
LongExtra == 1
\* longest line_items list of a SpecMerge input record
MaxItems == 2

(* ------------------------- program constants --------------------------- *)

\* range(1, min(11, total_pages - i + 1)): at most 10 pages per window
MAX_WINDOW == 10

(* --------------------------- Python values ----------------------------- *)
\* A JSON / Python value: null, a string, a number, a list of line items or
\* a boolean.
\* "absent" stands for a key the dict does not have.

None == [kind |-> "null", s |-> "", n |-> 0, l |-> <<>>]
Absent == [kind |-> "absent", s |-> "", n |-> 0, l |-> <<>>]
Str(x) == [kind |-> "str", s |-> x, n |-> 0, l |-> <<>>]
Num(k) == [kind |-> "num", s |-> "", n |-> k, l |-> <<>>]
List(q) == [kind |-> "list", s |-> "", n |-> 0, l |-> q]
Bool(b) == [kind |-> "bool", s |-> "", n |-> IF b THEN 1 ELSE 0, l |-> <<>>]

\* Python truthiness: None, "", 0, [] and False are falsy
Truthy(v) ==
    \/ v.kind = "str" /\ v.s # ""
    \/ v.kind = "num" /\ v.n # 0
    \/ v.kind = "list" /\ v.l # <<>>
    \/ v.kind = "bool" /\ v.n # 0

\* dict.get(key, default): the default only when the key is absent
Get(d, key, default) == IF d[key].kind = "absent" THEN default ELSE d[key]

\* the scalar fields merge_invoice_data loops over
ScalarFields ==
    {"customer_name", "vendor_name", "vendor_address", "vendor_phone",
     "vendor_email", "invoice_date", "due_date", "total_amount", "currency",
     "total_tax", "description", "invoice_number"}

\* the keys of an invoice_data dict (attachment_id, a constant of the pass,
\* is left out)
DataFields == ScalarFields \cup {"line_items"}

Min(a, b) == IF a < b THEN a ELSE b

\* list(range(a, b))
PyRange(a, b) == [k \in 1..(IF b > a THEN b - a ELSE 0) |-> a + k - 1]

(* ------------------------- merge_invoice_data -------------------------- *)

\* the new line items are put in front of the existing ones
merge_invoice_data_prepend(existing, new) ==
    LET newItems == Get(new, "line_items", None)
        oldItems == Get(existing, "line_items", None)
        withItems ==
            IF Truthy(newItems)
            THEN [existing EXCEPT !["line_items"] =
                     List(newItems.l
                          \o (IF ~Truthy(oldItems) THEN <<>> ELSE oldItems.l))]
            ELSE existing
    IN  [f \in DOMAIN withItems |->
            IF /\ f \in ScalarFields
               /\ ~Truthy(Get(withItems, f, None))
               /\ Truthy(Get(new, f, None))
            THEN new[f]
            ELSE withItems[f]]

\* merged = existing_data.copy(); line_items of new_data are appended when
\* new_data has any; each scalar is taken from new_data only when the
\* existing value is falsy and the new one truthy
merge_invoice_data(existing, new) ==
    LET newItems == Get(new, "line_items", None)
        oldItems == Get(existing, "line_items", None)
        withItems ==
            IF Truthy(newItems)
            THEN [existing EXCEPT !["line_items"] =
                     List((IF ~Truthy(oldItems) THEN <<>> ELSE oldItems.l)
                          \o newItems.l)]
            ELSE existing
    IN  [f \in DOMAIN withItems |->
            IF /\ f \in ScalarFields
               /\ ~Truthy(Get(withItems, f, None))
               /\ Truthy(Get(new, f, None))
            THEN new[f]
            ELSE withItems[f]]

(* ------------------------------ oracle --------------------------------- *)

\* every field None, no line items
EmptyData == [f \in DataFields |-> IF f = "line_items" THEN List(<<>>) ELSE None]

\* the dict returned by the except branch of analyze_and_extract_invoice
DefaultResult ==
    [dict |-> TRUE, is_complete_invoice |-> TRUE, is_invoice_start |-> TRUE,
     has_continuation |-> FALSE, confidence |-> "zero", api_error |-> TRUE,
     data |-> EmptyData]

\* json.loads returned something that is not a dict (a list, a string, null)
NonDictResult ==
    [dict |-> FALSE, is_complete_invoice |-> FALSE, is_invoice_start |-> FALSE,
     has_continuation |-> FALSE, confidence |-> "bad", api_error |-> FALSE,
     data |-> EmptyData]

\* the name of the line item an answer for window [cursor, cursor+size) lists
ItemOf(cursor, size) == 100 * cursor + size

\* the extracted fields an answer for window [cursor, cursor+size) may carry:
\* no invoice number, an empty one, or one of two; line items or none
Payloads(cursor, size) ==
    LET item == List(<<ItemOf(cursor, size)>>)
    IN  {[inv |-> None, items |-> item],
         [inv |-> Str(""), items |-> item],
         [inv |-> Str("A"), items |-> item],
         [inv |-> Str("A"), items |-> List(<<>>)],
         [inv |-> Str("B"), items |-> item]}

\* a JSON object with the three boundary signals, a confidence that is a
\* number ("num") or something the log line cannot format as a float ("bad":
\* null or a string), and the extracted fields
Answer(c, st, h, cf, p) ==
    [dict |-> TRUE, is_complete_invoice |-> c, is_invoice_start |-> st,
     has_continuation |-> h, confidence |-> cf, api_error |-> FALSE,
     data |-> [EmptyData EXCEPT !["invoice_number"] = p.inv,
                                !["line_items"] = p.items]]

\* the JSON objects the oracle may answer with for window [cursor, cursor+size):
\* every combination of the three signals; with a numeric confidence, every
\* payload when the answer reports a start or a complete invoice and one
\* payload when it reports neither; with an unformattable confidence, one
\* accepting and one start-with-continuation answer
WindowResults(cursor, size) ==
    LET item == List(<<ItemOf(cursor, size)>>)
    IN  {Answer(TRUE, st, h, "num", p) :
            st \in BOOLEAN, h \in BOOLEAN, p \in Payloads(cursor, size)}
        \cup {Answer(FALSE, TRUE, h, "num", p) :
            h \in BOOLEAN, p \in Payloads(cursor, size)}
        \cup {Answer(FALSE, FALSE, h, "num", [inv |-> None, items |-> item]) :
            h \in BOOLEAN}
        \cup {Answer(TRUE, TRUE, FALSE, "bad", [inv |-> None, items |-> item]),
              Answer(FALSE, TRUE, TRUE, "bad", [inv |-> None, items |-> item])}

\* what one call of the vision API can do: raise (timeout, HTTP error, text
\* that is not JSON), or return JSON, an object or not
OracleOutcomes(cursor, size) ==
    {[kind |-> "error", json |-> NonDictResult]}
    \cup {[kind |-> "json", json |-> NonDictResult]}
    \cup {[kind |-> "json", json |-> r] : r \in WindowResults(cursor, size)}

\* the except branch returns a default that reports neither a start nor a
\* complete invoice
analyze_and_extract_invoice_no_signal(outcome) ==
    IF outcome.kind = "error"
    THEN [DefaultResult EXCEPT !.is_complete_invoice = FALSE,
                               !.is_invoice_start = FALSE]
    ELSE outcome.json

\* analyze_and_extract_invoice: the parsed JSON, or the default on any
\* exception
analyze_and_extract_invoice(outcome) ==
    IF outcome.kind = "error" THEN DefaultResult ELSE outcome.json

(* ------------------------------- state --------------------------------- *)

VARIABLES
    pc,                 \* position in process_pdf
    total_pages,        \* len(images)
    i,                  \* the cursor
    group_size,         \* loop variable of the inner for
    found_invoice,
    best_group,         \* <<>> is None
    best_result,        \* <<>> is None, <<r>> is the dict r
    invoice_data_list,
    session_invoices,   \* invoice_number -> index in invoice_data_list
    window_log,         \* history: the results returned at this cursor
    calls,              \* history: the windows submitted to the oracle
    skipped,            \* history: the cursors stepped over without a group
    simple_run,         \* history: every answer so far reported a complete
                        \* invoice with a number no earlier answer carried
    existing_data,      \* merge_invoice_data's arguments, as objects
    new_data,
    merged_data,        \* and its result
    merge_in,           \* history: the arguments as they were at the call
    mpc,
    all_errors,         \* history: every oracle call so far raised
    status_log,         \* the calls of update_attachment_status, in order
    pdf_path,           \* "original", or "repaired" after repair_pdf
    errors_dir,         \* the documents copied to output_dir / "errors"
    group_idx,          \* idx, the loop variable of the artifact loop
    output_files,
    s3,                 \* the keys uploaded to the bucket
    batch_invoices,
    records,            \* the invoice records created through the API
    returned,           \* the list process_pdf returned
    abort,              \* history: what cut the attempt short, if anything
    exit_code,          \* of cli.main; -1 while it runs
    events,             \* history: the checks, repairs, renderings, file
                        \* writes, uploads, POSTs and status reports of the
                        \* attempt, in the order they were made
    disk,               \* output path -> the pages of the PDF and the text
                        \* of the JSON file written there
    instances,          \* attachment id -> the locals of its process_pdf call
    disk_writes,        \* history: who wrote which output path
    bucket_writes,      \* history: who uploaded which S3 key
    actor,              \* history: the instance that took the last step
    running,            \* SQSWorker.running
    wpc,                \* position in SQSWorker.run
    queue,              \* the messages in the SQS queue
    messages,           \* response.get('Messages', [])
    msg_success,        \* success, what process_message returned
    attempt,            \* history: how the last process_message call went
    deleted,            \* the messages delete_message was called for
    signalled,          \* history: SIGTERM or SIGINT was delivered
    event_records,      \* event['Records'] of the Lambda invocation
    record_idx,         \* the position of the for loop of handler
    message_body,       \* handler's local message_body
    processed_attachments,
    failed_attachments,
    response,           \* what handler returned
    input_pdf,          \* extract_pages_to_pdf: the pages of the input
    page_indices,       \* extract_pages_to_pdf: the indices asked for
    output_pdf,         \* extract_pages_to_pdf: the pages written
    invoice_record,     \* the record handed to json.dump
    json_file,          \* the text json.dump wrote
    loaded,             \* what json.load read back
    json_file_2,        \* the text json.dump wrote for loaded
    serial_pc,          \* the step of the round trip
    script,             \* the oracle's answer to every window, fixed
    pass_no,            \* the number of the process_pdf call under way
    results,            \* history: the final groups of the passes so far
    repair_input,       \* repair_pdf: the path it was given
    file_system,        \* repair_pdf: path -> content of the file there
    repair_reader,      \* repair_pdf: what PdfReader read from the input
    repair_pc,          \* repair_pdf: the statement it is at
    repair_result,      \* repair_pdf: what it returned
    frontend,           \* which front-end runs: cli.main, the SQS worker's
                        \* process_message, or the Lambda handler
    front_pc,           \* the statement the front-end is at
    attempt_no,         \* the attachment it is handling, counted from 1
    temp_pdf_path,      \* its local temp_pdf_path; 0 is None or unbound
    tmp_dir,            \* the files in the temporary directory
    front_log,          \* history: how each finished attempt went
    analyses,           \* group_pages_into_invoices: its argument
    invoice_groups,     \* group_pages_into_invoices: what it returned
    group_pc            \* group_pages_into_invoices: called or not

vars == <<pc, total_pages, i, group_size, found_invoice, best_group,
          best_result, invoice_data_list, session_invoices, window_log,
          calls, skipped, simple_run, existing_data, new_data, merged_data,
          merge_in, mpc, all_errors, status_log, pdf_path, errors_dir,
          group_idx,
          output_files, s3, batch_invoices, records, returned, abort,
          exit_code, events, disk, instances, disk_writes, bucket_writes, actor, running,
          wpc, queue, messages, msg_success, attempt, deleted, signalled,
          event_records, record_idx, message_body, processed_attachments,
          failed_attachments, response, input_pdf, page_indices, output_pdf,
          invoice_record, json_file, loaded, json_file_2, serial_pc, script,
          pass_no,
          results, repair_input, file_system, repair_reader,
          repair_pc, repair_result, frontend, front_pc, attempt_no,
          temp_pdf_path, tmp_dir, front_log, analyses, invoice_groups,
          group_pc>>

segVars == <<pc, total_pages, i, group_size, found_invoice, best_group,
             best_result, invoice_data_list, session_invoices, window_log,
             calls, skipped, simple_run, all_errors>>

mergeVars == <<existing_data, new_data, merged_data, merge_in, mpc>>

lifeVars == <<status_log, pdf_path, errors_dir, group_idx, output_files, s3,
              batch_invoices, records, returned, abort, exit_code, events,
              disk>>

pairVars == <<instances, disk_writes, bucket_writes, actor>>

workerVars == <<running, wpc, queue, messages, msg_success, attempt, deleted,
                signalled>>

\* what the segmentation loop and merge_invoice_data leave alone
lambdaVars == <<event_records, record_idx, message_body,
                processed_attachments, failed_attachments, response>>

extractVars == <<input_pdf, page_indices, output_pdf>>

serialVars == <<invoice_record, json_file, loaded, json_file_2, serial_pc>>

redoVars == <<script, pass_no, results>>

repairVars == <<repair_input, file_system, repair_reader, repair_pc, repair_result>>

tempVars == <<frontend, front_pc, attempt_no, temp_pdf_path, tmp_dir,
              front_log>>

groupVars == <<analyses, invoice_groups, group_pc>>

toolVars == <<repairVars, tempVars, groupVars>>

moreVars == <<lambdaVars, extractVars, serialVars, redoVars, toolVars>>

restVars == <<lifeVars, pairVars, workerVars, moreVars>>

EmptyDict == [k \in {} |-> 0]

(* -------------------------- segmentation loop -------------------------- *)

SegInit(pages) ==
    /\ pc = "outer"
    /\ total_pages \in pages
    /\ i = 0
    /\ group_size = 0
    /\ found_invoice = FALSE
    /\ best_group = <<>>
    /\ best_result = <<>>
    /\ invoice_data_list = <<>>
    /\ session_invoices = EmptyDict
    /\ window_log = <<>>
    /\ calls = <<>>
    /\ skipped = {}
    /\ simple_run = [ok |-> TRUE, numbers |-> {}]
    /\ all_errors = TRUE

\* process_pdf's state outside the segmentation loop, before anything ran
LifeIdle ==
    /\ status_log = <<>>
    /\ pdf_path = "original"
    /\ errors_dir = {}
    /\ group_idx = 0
    /\ output_files = <<>>
    /\ s3 = {}
    /\ batch_invoices = <<>>
    /\ records = {}
    /\ returned = <<>>
    /\ abort = "none"
    /\ exit_code = -1
    /\ events = <<>>
    /\ disk = EmptyDict

\* no second process_pdf call
PairIdle ==
    /\ instances = EmptyDict
    /\ disk_writes = {}
    /\ bucket_writes = {}
    /\ actor = 0

\* no SQS worker
WorkerIdle ==
    /\ running = FALSE
    /\ wpc = "off"
    /\ queue = {}
    /\ messages = <<>>
    /\ msg_success = FALSE
    /\ attempt = "none"
    /\ deleted = {}
    /\ signalled = FALSE

\* no Lambda invocation
LambdaIdle ==
    /\ event_records = <<>>
    /\ record_idx = 0
    /\ message_body = [bound |-> FALSE, object |-> FALSE, attachment_id |-> 0]
    /\ processed_attachments = <<>>
    /\ failed_attachments = <<>>
    /\ response = [statusCode |-> 0, processed_count |-> 0, failed_count |-> 0]

\* no extract_pages_to_pdf call on its own
ExtractIdle ==
    /\ input_pdf = <<>>
    /\ page_indices = <<>>
    /\ output_pdf = [state |-> "none", pages |-> <<>>]

\* no serialization on its own
SerialIdle ==
    /\ invoice_record = [keys |-> <<>>, val |-> EmptyDict]
    /\ json_file = <<>>
    /\ loaded = [keys |-> <<>>, val |-> EmptyDict]
    /\ json_file_2 = <<>>
    /\ serial_pc = "off"

\* no redelivery
RedoIdle ==
    /\ script = EmptyDict
    /\ pass_no = 0
    /\ results = <<>>

\* no repair_pdf call on its own
RepairIdle ==
    /\ repair_input = <<>>
    /\ file_system = EmptyDict
    /\ repair_reader = "none"
    /\ repair_pc = "off"
    /\ repair_result = [success |-> FALSE, path |-> <<>>]

\* no front-end on its own
TempIdle ==
    /\ frontend = "none"
    /\ front_pc = "off"
    /\ attempt_no = 0
    /\ temp_pdf_path = 0
    /\ tmp_dir = {}
    /\ front_log = <<>>

\* no group_pages_into_invoices call
GroupIdle ==
    /\ analyses = <<>>
    /\ invoice_groups = <<>>
    /\ group_pc = "off"

ToolIdle == RepairIdle /\ TempIdle /\ GroupIdle

MoreIdle == LambdaIdle /\ ExtractIdle /\ SerialIdle /\ RedoIdle /\ ToolIdle

RestIdle == LifeIdle /\ PairIdle /\ WorkerIdle /\ MoreIdle

MergeIdle ==
    /\ existing_data = EmptyData
    /\ new_data = EmptyData
    /\ merged_data = EmptyData
    /\ merge_in = <<EmptyData, EmptyData>>
    /\ mpc = "idle"

\* while i < total_pages: found_invoice = False; best_group = None; ...
StartIteration ==
    /\ pc = "outer"
    /\ i < total_pages
    /\ found_invoice' = FALSE
    /\ best_group' = <<>>
    /\ best_result' = <<>>
    /\ group_size' = 1
    /\ window_log' = <<>>
    /\ pc' = "inner"
    /\ UNCHANGED <<total_pages, i, invoice_data_list, session_invoices, calls,
                   skipped, simple_run, all_errors>>
    /\ UNCHANGED <<mergeVars, restVars>>

\* windows grow to the end of the document, without the cap of 10
LastSize_uncapped(cursor, n) == n - cursor

\* the last group_size of range(1, min(11, total_pages - i + 1))
LastSize(cursor, n) == Min(MAX_WINDOW + 1, n - cursor + 1) - 1

\* a complete invoice counts only when the answer also reports a start
IsAccepting_needs_start(result) ==
    result.is_invoice_start
        /\ (result.is_complete_invoice \/ ~result.has_continuation)

\* if result.get("is_complete_invoice") ... elif result.get("is_invoice_start")
\* and not result.get("has_continuation"): the window is taken at once
IsAccepting(result) ==
    \/ result.is_complete_invoice
    \/ result.is_invoice_start /\ ~result.has_continuation

\* the first window that reports a start is kept, a larger one never
\* replaces it
IsBetter_first_only(page_group, best) == best = <<>>

\* if best_group is None or len(page_group) > len(best_group)
IsBetter(page_group, best) == best = <<>> \/ Len(page_group) > Len(best)

\* the history of the premise "every answer is a complete invoice with its
\* own number"
SimpleAfter(run, result) ==
    LET number == result.data["invoice_number"]
        ok == /\ run.ok
              /\ result.dict
              /\ result.is_complete_invoice
              /\ number.kind # "null"
              /\ number \notin run.numbers
    IN  [ok |-> ok, numbers |-> IF ok THEN run.numbers \cup {number} ELSE {}]

\* one iteration of the inner for: the oracle call and the three-way test
AnalyzeWindow(outcome) ==
    LET page_group == PyRange(i, i + group_size)
        result == analyze_and_extract_invoice(outcome)
        more == group_size < LastSize(i, total_pages)
    IN  /\ pc = "inner"
        /\ calls' = Append(calls, [cursor |-> i, size |-> group_size,
                                   pages |-> page_group])
        /\ window_log' = Append(window_log, result)
        /\ simple_run' = SimpleAfter(simple_run, result)
        /\ all_errors' = (all_errors /\ outcome.kind = "error")
        /\ IF ~result.dict
           THEN \* result.get raises AttributeError
                /\ pc' = "raised"
                /\ UNCHANGED <<group_size, found_invoice, best_group,
                               best_result>>
           ELSE IF IsAccepting(result)
           THEN /\ best_group' = page_group
                /\ best_result' = <<result>>
                /\ found_invoice' = TRUE
                /\ pc' = "decide"
                /\ UNCHANGED group_size
           ELSE /\ IF /\ result.is_invoice_start
                      /\ IsBetter(page_group, best_group)
                   THEN /\ best_group' = page_group
                        /\ best_result' = <<result>>
                   ELSE UNCHANGED <<best_group, best_result>>
                /\ UNCHANGED found_invoice
                /\ IF more
                   THEN group_size' = group_size + 1 /\ pc' = "inner"
                   ELSE UNCHANGED group_size /\ pc' = "decide"
        /\ UNCHANGED <<total_pages, i, invoice_data_list, session_invoices,
                       skipped>>
        /\ UNCHANGED <<mergeVars, restVars>>

\* invoice_data = {"invoice_number": best_result.get("invoice_number"), ...,
\*                 "line_items": best_result.get("line_items", [])}
InvoiceDataOf(result) ==
    [f \in DataFields |->
        IF f = "line_items"
        THEN Get(result.data, f, List(<<>>))
        ELSE Get(result.data, f, None)]

\* if not found_invoice and best_result and best_result.get("is_invoice_start")
Found(found, best) == found \/ (best # <<>> /\ best[1].is_invoice_start)

\* if invoice_num and invoice_num in session_invoices
ShouldMerge(invoice_num, session) ==
    Truthy(invoice_num) /\ invoice_num \in DOMAIN session

\* a new group is never entered in the session index
Register_never(session, invoice_num, idx) == session

\* a new group is entered in the session index whatever its invoice number
Register_always(session, invoice_num, idx) == (invoice_num :> idx) @@ session

\* if invoice_num: session_invoices[invoice_num] = len(invoice_data_list) - 1
Register(session, invoice_num, idx) ==
    IF Truthy(invoice_num) THEN (invoice_num :> idx) @@ session ELSE session

\* existing["invoice_data"] = merged_data;
\* existing["page_indices"].extend(best_group)
MergeInto(existing, invoice_data, group) ==
    [invoice_data |-> merge_invoice_data(existing.invoice_data, invoice_data),
     page_indices |-> existing.page_indices \o group]

\* a cursor that moves one page whatever the size of the accepted window
Advance_by_one(cursor, group) == cursor + 1

\* i += len(best_group)
Advance(cursor, group) == cursor + Len(group)

\* a cursor that stays where it is when no invoice was found
StepOver_stuck(cursor) == cursor

\* i += 1
StepOver(cursor) == cursor + 1

\* the code after the inner for: accept best_group (merging it into the
\* group registered under its invoice number, or appending a new group), or
\* step over the page
AcceptWindow ==
    LET found == Found(found_invoice, best_result)
    IN  /\ pc = "decide"
        /\ IF found /\ best_result # <<>>
           THEN LET invoice_data == InvoiceDataOf(best_result[1])
                    invoice_num == invoice_data["invoice_number"]
                IN  /\ found_invoice' = found
                    /\ IF ShouldMerge(invoice_num, session_invoices)
                       THEN LET existing_idx == session_invoices[invoice_num]
                            IN  /\ invoice_data_list' =
                                     [invoice_data_list EXCEPT
                                        ![existing_idx + 1] =
                                           MergeInto(@, invoice_data,
                                                     best_group)]
                                /\ UNCHANGED session_invoices
                       ELSE /\ invoice_data_list' =
                                 Append(invoice_data_list,
                                        [invoice_data |-> invoice_data,
                                         page_indices |-> best_group])
                            /\ session_invoices' =
                                 Register(session_invoices, invoice_num,
                                          Len(invoice_data_list))
                    /\ i' = Advance(i, best_group)
                    \* the log line formats confidence with :.2f
                    /\ pc' = IF best_result[1].confidence = "bad"
                             THEN "raised" ELSE "outer"
                    /\ UNCHANGED skipped
           ELSE /\ i' = StepOver(i)
                /\ skipped' = skipped \cup {i}
                /\ pc' = "outer"
                /\ UNCHANGED <<found_invoice, invoice_data_list,
                               session_invoices>>
        /\ UNCHANGED <<total_pages, group_size, best_group, best_result,
                       window_log, calls, simple_run, all_errors>>
        /\ UNCHANGED <<mergeVars, restVars>>

\* the while condition is false: "Found n invoice(s)"
FinishSegmentation ==
    /\ pc = "outer"
    /\ i >= total_pages
    /\ pc' = "segmented"
    /\ UNCHANGED <<total_pages, i, group_size, found_invoice, best_group,
                   best_result, invoice_data_list, session_invoices,
                   window_log, calls, skipped, simple_run, all_errors>>
    /\ UNCHANGED <<mergeVars, restVars>>

Init == SegInit(1..MaxPages) /\ MergeIdle /\ RestIdle

Next ==
    \/ StartIteration
    \/ \E outcome \in OracleOutcomes(i, group_size) : AnalyzeWindow(outcome)
    \/ AcceptWindow
    \/ FinishSegmentation

Spec == Init /\ [][Next]_vars

(* ---------------- documents longer than the window cap ----------------- *)

\* the oracle of SpecLong: at the first cursor it answers "start, to be
\* continued", "no start" or "complete", or fails; at every later cursor the
\* call fails
LongOutcomes(cursor, size) ==
    LET p == [inv |-> Str("A"), items |-> List(<<ItemOf(cursor, size)>>)]
        q == [inv |-> None, items |-> List(<<ItemOf(cursor, size)>>)]
    IN  {[kind |-> "error", json |-> NonDictResult]}
        \cup IF cursor = 0
             THEN {[kind |-> "json", json |-> r] :
                      r \in {Answer(FALSE, TRUE, TRUE, "num", p),
                             Answer(FALSE, FALSE, TRUE, "num", q),
                             Answer(TRUE, TRUE, FALSE, "num", p)}}
             ELSE {}

LongInit ==
    /\ SegInit((MAX_WINDOW + 1)..(MAX_WINDOW + LongExtra))
    /\ MergeIdle
    /\ RestIdle

LongNext ==
    \/ StartIteration
    \/ \E outcome \in LongOutcomes(i, group_size) : AnalyzeWindow(outcome)
    \/ AcceptWindow
    \/ FinishSegmentation

SpecLong == LongInit /\ [][LongNext]_vars

(* --------------------- merge_invoice_data on its own ------------------- *)

\* the values a scalar field of a record takes: null, the empty string, the
\* number 0, a string and a non-zero number
ScalarValues == {None, Str(""), Num(0), Str("x"), Num(5)}

\* the sequences over S of length at most n
SeqsUpTo(S, n) == UNION {[1..k -> S] : k \in 0..n}

\* line_items of a record: null, or a list of at most MaxItems items
ItemLists == {None} \cup {List(q) : q \in SeqsUpTo({1, 2}, MaxItems)}

\* the values of the fields other than the one under test, in
\* <<existing_data, new_data>>
Backgrounds == {<<None, Str("y")>>, <<Str("x"), Str("y")>>}

\* a record: field f holds v, every other scalar holds bg
RecordWith(f, v, bg, items) ==
    [g \in DataFields |->
        IF g = "line_items" THEN items ELSE IF g = f THEN v ELSE bg]

SegIdle ==
    /\ pc = "off"
    /\ total_pages = 0
    /\ i = 0
    /\ group_size = 0
    /\ found_invoice = FALSE
    /\ best_group = <<>>
    /\ best_result = <<>>
    /\ invoice_data_list = <<>>
    /\ session_invoices = EmptyDict
    /\ window_log = <<>>
    /\ calls = <<>>
    /\ skipped = {}
    /\ simple_run = [ok |-> TRUE, numbers |-> {}]
    /\ all_errors = TRUE

MergeInit ==
    /\ SegIdle
    /\ RestIdle
    /\ mpc = "input"
    /\ \E f \in ScalarFields, va \in ScalarValues, vb \in ScalarValues,
          bg \in Backgrounds, ia \in ItemLists, ib \in ItemLists :
          /\ existing_data = RecordWith(f, va, bg[1], ia)
          /\ new_data = RecordWith(f, vb, bg[2], ib)
    /\ merge_in = <<existing_data, new_data>>
    /\ merged_data = EmptyData

\* existing_data after the call: merged is a shallow copy, so extend()
\* lengthens the very list existing_data holds, unless that list was falsy
\* and merged got a fresh one
ExistingAfterMerge(existing, new) ==
    IF /\ Truthy(Get(new, "line_items", None))
       /\ Truthy(Get(existing, "line_items", None))
    THEN [existing EXCEPT !["line_items"] =
             merge_invoice_data(existing, new)["line_items"]]
    ELSE existing

\* merged = merge_invoice_data(existing_data, new_data)
MergeCall ==
    /\ mpc = "input"
    /\ merged_data' = merge_invoice_data(existing_data, new_data)
    /\ existing_data' = ExistingAfterMerge(existing_data, new_data)
    /\ mpc' = "merged"
    /\ UNCHANGED <<new_data, merge_in>>
    /\ UNCHANGED <<segVars, restVars>>

SpecMerge == MergeInit /\ [][MergeCall]_vars

(* ------------------ the pass and the merge side by side ---------------- *)

AllInit == Init \/ MergeInit

AllNext == Next \/ MergeCall

SpecAll == AllInit /\ [][AllNext]_vars

(* ------------------- the files: extract_pages_to_pdf, json --------------- *)

\* longest input of extract_pages_to_pdf on its own, and the largest index
ExtractPages == 2

\* reader.pages[page_idx]: a negative index counts from the end
PageAt(doc, page_idx) ==
    IF page_idx >= 0 THEN doc[page_idx + 1] ELSE doc[Len(doc) + page_idx + 1]

\* for page_idx in page_indices: if page_idx < len(reader.pages):
\*     writer.add_page(reader.pages[page_idx])
RECURSIVE AddPages(_, _)
AddPages(doc, indices) ==
    IF indices = <<>>
    THEN <<>>
    ELSE IF Head(indices) < Len(doc)
    THEN <<PageAt(doc, Head(indices))>> \o AddPages(doc, Tail(indices))
    ELSE AddPages(doc, Tail(indices))

\* an index at or beyond the page count is written as the last page
extract_pages_to_pdf_clamped(doc, indices) ==
    IF \E k \in DOMAIN indices : indices[k] < 0 - Len(doc) \/ doc = <<>>
    THEN [state |-> "raised", pages |-> <<>>]
    ELSE [state |-> "written",
          pages |-> [k \in DOMAIN indices |->
                        IF indices[k] < Len(doc) THEN PageAt(doc, indices[k])
                        ELSE doc[Len(doc)]]]

\* extract_pages_to_pdf: the pages written to output_path; an index below
\* -len(reader.pages) raises IndexError before anything is written
extract_pages_to_pdf(doc, indices) ==
    IF \E k \in DOMAIN indices : indices[k] < 0 - Len(doc)
    THEN [state |-> "raised", pages |-> <<>>]
    ELSE [state |-> "written", pages |-> AddPages(doc, indices)]

\* the pages of a document of n pages, each named by its index
PagesOfDocument(n) == [k \in 1..n |-> k - 1]

ExtractInit ==
    /\ \E n \in 0..ExtractPages :
          /\ input_pdf = PagesOfDocument(n)
          /\ page_indices \in SeqsUpTo(0..ExtractPages, ExtractPages + 1)
    /\ output_pdf = [state |-> "none", pages |-> <<>>]
    /\ LambdaIdle
    /\ SerialIdle
    /\ RedoIdle
    /\ ToolIdle
    /\ SegIdle
    /\ MergeIdle
    /\ LifeIdle
    /\ PairIdle
    /\ WorkerIdle

\* self.extract_pages_to_pdf(input_pdf, page_indices, output_path)
ExtractCall ==
    /\ pc = "off"
    /\ output_pdf.state = "none"
    /\ output_pdf' = extract_pages_to_pdf(input_pdf, page_indices)
    /\ UNCHANGED <<input_pdf, page_indices>>
    /\ UNCHANGED <<segVars, mergeVars, lifeVars, pairVars, workerVars,
                   lambdaVars, serialVars, redoVars,
                   toolVars>>

\* the keys of the dict literal that builds invoice_data, in its order
FieldOrder ==
    <<"invoice_number", "customer_name", "vendor_name", "vendor_address",
      "vendor_phone", "vendor_email", "invoice_date", "due_date",
      "total_amount", "currency", "total_tax", "description", "line_items">>

\* a Python dict with its insertion order: the keys in order, and the values
OrderedDict(keys, values) == [keys |-> keys, val |-> values]

\* the JSON text of a value
JsonText(v) ==
    [type |-> CASE v.kind = "null" -> "null"
                [] v.kind = "str" -> "string"
                [] v.kind = "num" -> "number"
                [] v.kind = "list" -> "array",
     text |-> v.s, number |-> v.n, elements |-> v.l]

\* the value of a JSON text
JsonValue(t) ==
    CASE t.type = "null" -> None
      [] t.type = "string" -> Str(t.text)
      [] t.type = "number" -> Num(t.number)
      [] t.type = "array" -> List(t.elements)

\* json.dump(d, f, indent=2, ensure_ascii=False): the members of the object,
\* one per key of d, in d's order
json_dump(d) ==
    [k \in DOMAIN d.keys |->
        [key |-> d.keys[k], value |-> JsonText(d.val[d.keys[k]])]]

\* json.load that leaves out the members whose value is null
json_load_without_nulls(text) ==
    LET kept == SelectSeq(text, LAMBDA member : member.value.type # "null")
    IN  OrderedDict([k \in DOMAIN kept |-> kept[k].key],
                    [key \in {kept[k].key : k \in DOMAIN kept} |->
                        JsonValue(kept[CHOOSE k \in DOMAIN kept :
                                          kept[k].key = key].value)])

\* json.load(f): a dict with the members of the object in the order of the
\* text
json_load(text) ==
    OrderedDict([k \in DOMAIN text |-> text[k].key],
                [key \in {text[k].key : k \in DOMAIN text} |->
                    JsonValue(text[CHOOSE k \in DOMAIN text :
                                      text[k].key = key].value)])

\* invoice_data as the dict process_pdf built: the thirteen fields and
\* attachment_id
InvoiceDict(invoice_data, attachment_id) ==
    OrderedDict(FieldOrder \o <<"attachment_id">>,
                [f \in DataFields \cup {"attachment_id"} |->
                    IF f = "attachment_id" THEN Num(attachment_id)
                    ELSE invoice_data[f]])

\* the key orders of the records of SpecSerial
KeyOrders ==
    {FieldOrder,
     [k \in DOMAIN FieldOrder |-> FieldOrder[Len(FieldOrder) + 1 - k]],
     <<"line_items", "invoice_number", "total_amount">>}

SerialInit ==
    /\ \E keys \in KeyOrders, number \in ScalarValues, amount \in ScalarValues,
          items \in ItemLists :
          invoice_record =
              OrderedDict(keys,
                          [f \in {keys[k] : k \in DOMAIN keys} |->
                              IF f = "line_items" THEN items
                              ELSE IF f = "invoice_number" THEN number
                              ELSE IF f = "total_amount" THEN amount
                              ELSE None])
    /\ json_file = <<>>
    /\ loaded = OrderedDict(<<>>, EmptyDict)
    /\ json_file_2 = <<>>
    /\ serial_pc = "dump"
    /\ LambdaIdle
    /\ ExtractIdle
    /\ RedoIdle
    /\ ToolIdle
    /\ SegIdle
    /\ MergeIdle
    /\ LifeIdle
    /\ PairIdle
    /\ WorkerIdle

\* json.dump(invoice_data, json_file, indent=2, ensure_ascii=False)
Serialize ==
    /\ serial_pc = "dump"
    /\ json_file' = json_dump(invoice_record)
    /\ serial_pc' = "load"
    /\ UNCHANGED <<invoice_record, loaded, json_file_2>>
    /\ UNCHANGED <<segVars, mergeVars, lifeVars, pairVars, workerVars,
                   lambdaVars, extractVars, redoVars,
                   toolVars>>

\* the file is read back
Deserialize ==
    /\ serial_pc = "load"
    /\ loaded' = json_load(json_file)
    /\ serial_pc' = "dump_again"
    /\ UNCHANGED <<invoice_record, json_file, json_file_2>>
    /\ UNCHANGED <<segVars, mergeVars, lifeVars, pairVars, workerVars,
                   lambdaVars, extractVars, redoVars,
                   toolVars>>

\* what was read is written again
SerializeAgain ==
    /\ serial_pc = "dump_again"
    /\ json_file_2' = json_dump(loaded)
    /\ serial_pc' = "done"
    /\ UNCHANGED <<invoice_record, json_file, loaded>>
    /\ UNCHANGED <<segVars, mergeVars, lifeVars, pairVars, workerVars,
                   lambdaVars, extractVars, redoVars,
                   toolVars>>

SerialNext == Serialize \/ Deserialize \/ SerializeAgain

SpecSerial == SerialInit /\ [][SerialNext]_vars

(* --------------------- one attempt, from cli.main on ------------------- *)

\* longest document of SpecLife
LifePages == 2

\* the attachment id cli.main is called with
AttachmentId == 7

\* one entry of events: what was done, to which group (or, for a check, to
\* the original 0 or the repaired copy 1), and whether it succeeded
Ev(op, arg, ok) == [op |-> op, arg |-> arg, ok |-> ok]

\* the entries of events for the status reports that took log to new_log
ReportEvents(log, new_log) ==
    [k \in 1..(Len(new_log) - Len(log)) |->
        Ev(CASE new_log[Len(log) + k].status = "processing" -> "report_processing"
             [] new_log[Len(log) + k].status = "success" -> "report_success"
             [] new_log[Len(log) + k].status = "failed" -> "report_failed",
           0, new_log[Len(log) + k].delivered)]

\* update_attachment_status: the PATCH is sent; a RequestException is logged
\* and swallowed, so the caller sees no difference
update_attachment_status(log, status, delivered) ==
    Append(log, [status |-> status, delivered |-> delivered])

\* the except branch of process_pdf reports nothing
ReportOnException_silent(log, delivered) == log

\* except Exception: self.update_attachment_status(attachment_id, "failed")
ReportOnException(log, delivered) ==
    update_attachment_status(log, "failed", delivered)

\* nothing is copied to the errors folder
CopyToErrors_nothing(dir, path) == dir

\* shutil.copy2(pdf_path, errors_dir / pdf_path.name)
CopyToErrors(dir, path) == dir \cup {path}

\* the characters of the invoice numbers the oracle of SpecLife answers with
Spell ==
    ("" :> <<>>) @@ ("A" :> <<"A">>) @@ ("B" :> <<"B">>) @@ ("2" :> <<"2">>)
    @@ ("A1" :> <<"A", "1">>) @@ ("A/1" :> <<"A", "/", "1">>)

\* c.isalnum()
IsAlnum(c) ==
    c \in {"0", "1", "2", "3", "4", "5", "6", "7", "8", "9", "A", "B"}

\* "".join(c for c in invoice_num if c.isalnum() or c in "-_")
SafeInvoiceNum(invoice_num) ==
    SelectSeq(Spell[invoice_num.s], LAMBDA c : IsAlnum(c) \/ c \in {"-", "_"})

\* str(idx) of f"{base_name}_invoice_{idx}.pdf"
RECURSIVE Decimal(_)
Decimal(k) ==
    LET digit == <<"0", "1", "2", "3", "4", "5", "6", "7", "8", "9">>
    IN  IF k < 10 THEN <<digit[k + 1]>>
        ELSE Decimal(k \div 10) \o <<digit[(k % 10) + 1]>>

\* output_filename without its extension: the slug of the invoice number when
\* there is one, else the 1-based position
OutputFilename(base_name, invoice_num, position) ==
    [base |-> base_name,
     tail |-> IF Truthy(invoice_num)
              THEN SafeInvoiceNum(invoice_num)
              ELSE Decimal(position)]

\* f"invoices/{attachment_id}/{output_filename}", for the PDF or the JSON
S3Key(attachment_id, filename, ext) ==
    [attachment_id |-> attachment_id, name |-> filename, ext |-> ext]

\* cli.main starts; the document has total_pages pages (none: a PDF without
\* pages)
LifeInit ==
    /\ pc = "main"
    /\ total_pages \in 0..LifePages
    /\ i = 0
    /\ group_size = 0
    /\ found_invoice = FALSE
    /\ best_group = <<>>
    /\ best_result = <<>>
    /\ invoice_data_list = <<>>
    /\ session_invoices = EmptyDict
    /\ window_log = <<>>
    /\ calls = <<>>
    /\ skipped = {}
    /\ simple_run = [ok |-> TRUE, numbers |-> {}]
    /\ all_errors = TRUE
    /\ MergeIdle
    /\ RestIdle

lifeSegVars == <<total_pages, i, group_size, found_invoice, best_group,
                 best_result, invoice_data_list, session_invoices, window_log,
                 calls, skipped, simple_run, all_errors>>

\* cli.main up to the call of process_pdf: the metadata is fetched and the
\* document downloaded; without a fileUrl ValueError is raised, and the
\* except branch of main logs it and exits with 1
MainFetch(has_file_url) ==
    /\ pc = "main"
    /\ IF has_file_url
       THEN /\ pc' = "start"
            /\ UNCHANGED <<abort, exit_code>>
       ELSE /\ pc' = "exit"
            /\ abort' = "validation"
            /\ exit_code' = 1
    /\ UNCHANGED <<status_log, pdf_path, errors_dir, group_idx, output_files,
                   s3, batch_invoices, records, returned, events>>
    /\ UNCHANGED <<lifeSegVars, mergeVars, pairVars, workerVars, moreVars,
                   disk>>

\* self.update_attachment_status(attachment_id, "processing")
ReportProcessing(delivered) ==
    /\ pc = "start"
    /\ status_log' = update_attachment_status(status_log, "processing",
                                              delivered)
    /\ events' = events \o ReportEvents(status_log, status_log')
    /\ pc' = "check"
    /\ UNCHANGED <<pdf_path, errors_dir, group_idx, output_files, s3,
                   batch_invoices, records, returned, abort, exit_code>>
    /\ UNCHANGED <<lifeSegVars, mergeVars, pairVars, workerVars, moreVars,
                   disk>>

\* is_valid, error = self.check_pdf_corruption(str(pdf_path)): a document
\* without pages is invalid, any other may be unreadable
CheckCorruption(is_valid) ==
    /\ pc = "check"
    /\ total_pages = 0 => ~is_valid
    /\ events' = Append(events, Ev("check", 0, is_valid))
    /\ pc' = IF is_valid THEN "render" ELSE "repair"
    /\ UNCHANGED <<status_log, pdf_path, errors_dir, group_idx, output_files,
                   s3, batch_invoices, records, returned, abort, exit_code>>
    /\ UNCHANGED <<lifeSegVars, mergeVars, pairVars, workerVars, moreVars,
                   disk>>

\* repair_pdf called again when its result is still invalid
repair_pdf_retry(success, rechecked) ==
    LET once == <<Ev("repair", 0, success)>>
                \o IF rechecked THEN <<Ev("check", 1, success)>> ELSE <<>>
    IN  IF success THEN once ELSE once \o once

\* repair_pdf: the pages are copied to *_repaired.pdf and
\* check_pdf_corruption is run on the copy (rechecked); when reading or
\* writing raises, the except branch returns False without that check
repair_pdf(success, rechecked) ==
    <<Ev("repair", 0, success)>>
    \o IF rechecked THEN <<Ev("check", 1, success)>> ELSE <<>>

\* success, result = self.repair_pdf(str(pdf_path)): on success the repaired
\* copy is processed; on failure the document is copied to the errors
\* folder, 'failed' is reported and [] returned
RepairPdf(success, rechecked, delivered) ==
    /\ pc = "repair"
    /\ total_pages = 0 => ~success
    /\ success => rechecked
    /\ IF success
       THEN /\ pdf_path' = "repaired"
            /\ pc' = "render"
            /\ UNCHANGED <<status_log, errors_dir, returned, abort>>
       ELSE /\ errors_dir' = CopyToErrors(errors_dir, pdf_path)
            /\ status_log' = update_attachment_status(status_log, "failed",
                                                      delivered)
            /\ returned' = <<>>
            /\ abort' = "integrity"
            /\ pc' = "returned"
            /\ UNCHANGED pdf_path
    /\ events' = events \o repair_pdf(success, rechecked)
                        \o ReportEvents(status_log, status_log')
    /\ UNCHANGED <<group_idx, output_files, s3, batch_invoices, records,
                   exit_code>>
    /\ UNCHANGED <<lifeSegVars, mergeVars, pairVars, workerVars, moreVars,
                   disk>>

\* images = convert_from_path(str(pdf_path), dpi=200); on an exception the
\* document being processed is copied to the errors folder, 'failed' is
\* reported and [] returned
Render(rendered, delivered) ==
    /\ pc = "render"
    /\ IF rendered
       THEN /\ pc' = "outer"
            /\ UNCHANGED <<status_log, errors_dir, returned, abort>>
       ELSE /\ errors_dir' = CopyToErrors(errors_dir, pdf_path)
            /\ status_log' = update_attachment_status(status_log, "failed",
                                                      delivered)
            /\ returned' = <<>>
            /\ abort' = "render"
            /\ pc' = "returned"
    /\ events' = events \o <<Ev("render", 0, rendered)>>
                        \o ReportEvents(status_log, status_log')
    /\ UNCHANGED <<pdf_path, group_idx, output_files, s3, batch_invoices,
                   records, exit_code>>
    /\ UNCHANGED <<lifeSegVars, mergeVars, pairVars, workerVars, moreVars,
                   disk>>

\* every attachment is written to the same directory
OutputPath_flat(attachment_id, filename) == [dir |-> 0, name |-> filename]

\* output_dir / output_filename, with output_dir = root / str(attachment_id)
OutputPath(attachment_id, filename) ==
    [dir |-> attachment_id, name |-> filename]

\* output_files = []; base_name = pdf_path.stem; batch_invoices = []
BeginArtifacts ==
    /\ pc = "segmented"
    /\ group_idx' = 1
    /\ output_files' = <<>>
    /\ batch_invoices' = <<>>
    /\ pc' = "write"
    /\ UNCHANGED <<status_log, pdf_path, errors_dir, s3, records, returned,
                   abort, exit_code, events>>
    /\ UNCHANGED <<lifeSegVars, mergeVars, pairVars, workerVars, moreVars,
                   disk>>

\* an exception of upload_to_s3 leaves the loop
NextAfterUpload_propagate(upload) ==
    IF upload = "ok" THEN "write" ELSE "raised"

\* except Exception as e: "Warning: S3 upload failed"; the loop goes on
NextAfterUpload(upload) == "write"

\* the PDF is uploaded before the JSON record is written
ArtifactEvents_upload_first(k, upload) ==
    <<Ev("extract", k, TRUE), Ev("upload_pdf", k, upload # "pdf_fails"),
      Ev("json", k, TRUE)>>
    \o IF upload = "pdf_fails"
       THEN <<>>
       ELSE <<Ev("upload_json", k, upload = "ok")>>

\* what one iteration of the artifact loop does for the group at position
\* k: extract_pages_to_pdf, json.dump, upload_to_s3 of the PDF and, when that
\* did not raise, upload_to_s3 of the JSON
ArtifactEvents(k, upload) ==
    <<Ev("extract", k, TRUE), Ev("json", k, TRUE),
      Ev("upload_pdf", k, upload # "pdf_fails")>>
    \o IF upload = "pdf_fails"
       THEN <<>>
       ELSE <<Ev("upload_json", k, upload = "ok")>>

\* the entry is stored for the batch call whatever the uploads did
BatchAfterUpload_always(batch, entry, upload) == Append(batch, entry)

\* batch_invoices.append({...}) is the last statement of the try around the
\* two upload_to_s3 calls: it is reached only when neither raised
BatchAfterUpload(batch, entry, upload) ==
    IF upload = "ok" THEN Append(batch, entry) ELSE batch

\* one iteration of for idx, invoice_info in enumerate(invoice_data_list,
\* start=1): the name, the PDF and the JSON on disk, the two uploads (the
\* first or the second may raise), the entry for the batch call
WriteGroup(upload) ==
    LET invoice_data == invoice_data_list[group_idx].invoice_data
        page_indices_of_group == invoice_data_list[group_idx].page_indices
        invoice_num == Get(invoice_data, "invoice_number", None)
        filename == OutputFilename(pdf_path, invoice_num, group_idx)
        pdf_s3_key == S3Key(AttachmentId, filename, "pdf")
        json_s3_key == S3Key(AttachmentId, filename, "json")
    IN  /\ pc = "write"
        /\ group_idx <= Len(invoice_data_list)
        /\ IF Truthy(invoice_num) /\ invoice_num.kind # "str"
           THEN \* for c in invoice_num: a number is not iterable
                /\ pc' = "raised"
                /\ UNCHANGED <<group_idx, output_files, s3, batch_invoices,
                               events, disk>>
           ELSE /\ output_files' =
                     Append(output_files, OutputPath(AttachmentId, filename))
                /\ disk' =
                     [path \in DOMAIN disk
                               \cup {OutputPath(AttachmentId, filename)} |->
                         IF path = OutputPath(AttachmentId, filename)
                         THEN [pdf |-> extract_pages_to_pdf(
                                          PagesOfDocument(total_pages),
                                          page_indices_of_group).pages,
                               json |-> json_dump(InvoiceDict(invoice_data,
                                                              AttachmentId))]
                         ELSE disk[path]]
                /\ s3' = s3 \cup (CASE upload = "ok" ->
                                           {pdf_s3_key, json_s3_key}
                                    [] upload = "json_fails" -> {pdf_s3_key}
                                    [] upload = "pdf_fails" -> {})
                /\ batch_invoices' =
                     BatchAfterUpload(batch_invoices,
                                      [invoice_data |-> invoice_data,
                                       attachment_id |-> AttachmentId,
                                       s3_pdf_key |-> pdf_s3_key,
                                       s3_json_key |-> json_s3_key],
                                      upload)
                /\ events' = events \o ArtifactEvents(group_idx, upload)
                /\ group_idx' = group_idx + 1
                /\ pc' = NextAfterUpload(upload)
        /\ UNCHANGED <<status_log, pdf_path, errors_dir, records, returned,
                       abort, exit_code>>
        /\ UNCHANGED <<lifeSegVars, mergeVars, pairVars, workerVars, moreVars>>

\* self.update_attachment_status(attachment_id, "success"), whatever
\* output_files holds
FinalStatus(files) == "success"

\* self.api_url, the configured API_URL
ApiUrl == "API_URL"

\* the URL a record-creation request is addressed to: create_invoice_record
\* POSTs to f"{self.api_url}/api/v1/processor/invoices"; the batch POST of
\* create_invoice_records_batch goes to a fixed webhook.site address, the
\* line with f"{self.api_url}/api/v1/processor/invoices/batch" being
\* commented out
RequestUrl(op) ==
    CASE op = "post_single" ->
             [base |-> ApiUrl, path |-> "/api/v1/processor/invoices"]
      [] op = "post_batch" ->
             [base |-> "https://webhook.site",
              path |-> "/1629bfe9-6548-4055-8078-857d4b2265f1"]

\* how the batch POST can end: 2xx, 404, another HTTP error status, or a
\* request that fails without a response (connection error, timeout)
BatchOutcomes == {"ok", "not_found", "http_error", "request_error"}

\* the fallback loop: create_invoice_record for every invoice, in order, each
\* in its own try/except (single_ok: the POSTs that succeed)
IndividualPosts(invoices, single_ok) ==
    [k \in 1..Len(invoices) |-> Ev("post_single", k, k \in single_ok)]

\* create_invoice_records_batch without its outer except RequestException:
\* only a 404 falls back, any other failure of the batch POST propagates
create_invoice_records_batch_404_only(invoices, batch, single_ok) ==
    IF invoices = <<>>
    THEN [posts |-> <<>>, raised |-> FALSE, created |-> {}]
    ELSE IF batch = "ok"
    THEN [posts |-> <<Ev("post_batch", 0, TRUE)>>, raised |-> FALSE,
          created |-> DOMAIN invoices]
    ELSE IF batch = "not_found"
    THEN [posts |-> <<Ev("post_batch", 0, FALSE)>>
                    \o IndividualPosts(invoices, single_ok),
          raised |-> FALSE, created |-> single_ok]
    ELSE [posts |-> <<Ev("post_batch", 0, FALSE)>>, raised |-> TRUE,
          created |-> {}]

\* create_invoice_records_batch: nothing for an empty list; else one batch
\* POST; on a 404 (inner except HTTPError) and on any other HTTPError
\* (re-raised to the outer except) or RequestException (outer except) every
\* invoice is POSTed on its own by create_invoice_record, which logs its
\* own RequestException
create_invoice_records_batch(invoices, batch, single_ok) ==
    IF invoices = <<>>
    THEN [posts |-> <<>>, raised |-> FALSE, created |-> {}]
    ELSE IF batch = "ok"
    THEN [posts |-> <<Ev("post_batch", 0, TRUE)>>, raised |-> FALSE,
          created |-> DOMAIN invoices]
    ELSE [posts |-> <<Ev("post_batch", 0, FALSE)>>
                    \o IndividualPosts(invoices, single_ok),
          raised |-> FALSE, created |-> single_ok]

\* after the loop: create_invoice_records_batch when batch_invoices is not
\* empty, then the status report and return output_files; an exception out
\* of the batch call would reach the except branch of process_pdf
FinishArtifacts(batch, single_ok, delivered) ==
    LET result == IF batch_invoices # <<>>
                  THEN create_invoice_records_batch(batch_invoices, batch,
                                                    single_ok)
                  ELSE [posts |-> <<>>, raised |-> FALSE, created |-> {}]
    IN  /\ pc = "write"
        /\ group_idx > Len(invoice_data_list)
        /\ single_ok \subseteq DOMAIN batch_invoices
        /\ batch_invoices = <<>> => batch = "ok"
        /\ batch = "ok" => single_ok = DOMAIN batch_invoices
        /\ records' = result.created
        /\ IF result.raised
           THEN /\ pc' = "raised"
                /\ events' = events \o result.posts
                /\ UNCHANGED <<status_log, returned>>
           ELSE /\ status_log' = update_attachment_status(
                                     status_log, FinalStatus(output_files),
                                     delivered)
                /\ events' = events \o result.posts
                                    \o ReportEvents(status_log, status_log')
                /\ returned' = output_files
                /\ pc' = "returned"
        /\ UNCHANGED <<pdf_path, errors_dir, group_idx, output_files, s3,
                       batch_invoices, abort, exit_code>>
        /\ UNCHANGED <<lifeSegVars, mergeVars, pairVars, workerVars, moreVars,
                   disk>>

\* except Exception as e: ... update_attachment_status(attachment_id,
\* "failed"); raise
HandleException(delivered) ==
    /\ pc = "raised"
    /\ status_log' = ReportOnException(status_log, delivered)
    /\ events' = events \o ReportEvents(status_log, status_log')
    /\ abort' = "exception"
    /\ pc' = "reraised"
    /\ UNCHANGED <<pdf_path, errors_dir, group_idx, output_files, s3,
                   batch_invoices, records, returned, exit_code>>
    /\ UNCHANGED <<lifeSegVars, mergeVars, pairVars, workerVars, moreVars,
                   disk>>

\* cli.main after process_pdf: sys.exit(0) when output_files is not empty,
\* sys.exit(1) when it is empty or process_pdf raised
MainExit ==
    /\ pc \in {"returned", "reraised"}
    /\ exit_code' = IF pc = "returned" /\ returned # <<>> THEN 0 ELSE 1
    /\ pc' = "exit"
    /\ UNCHANGED <<status_log, pdf_path, errors_dir, group_idx, output_files,
                   s3, batch_invoices, records, returned, abort, events>>
    /\ UNCHANGED <<lifeSegVars, mergeVars, pairVars, workerVars, moreVars,
                   disk>>

\* the oracle of SpecLife: the call fails, or returns JSON that is not an
\* object, or a complete invoice (without a number, with one of three
\* numbers, with a number that is not a string, or with a confidence that is
\* not a number), or "no start here", or "start, to be continued"
LifeOutcomes(cursor, size) ==
    LET item == List(<<ItemOf(cursor, size)>>)
        none == [inv |-> None, items |-> item]
    IN  {[kind |-> "error", json |-> NonDictResult],
         [kind |-> "json", json |-> NonDictResult]}
        \cup {[kind |-> "json",
               json |-> Answer(TRUE, TRUE, FALSE, "num",
                               [inv |-> n, items |-> item])] :
                 n \in {None, Str("2"), Str("A1"), Str("A/1"), Num(5)}}
        \cup {[kind |-> "json", json |-> r] :
                 r \in {Answer(TRUE, TRUE, FALSE, "bad", none),
                        Answer(FALSE, FALSE, FALSE, "num", none),
                        Answer(FALSE, TRUE, TRUE, "num", none)}}

LifeNext ==
    \/ \E has_file_url \in BOOLEAN : MainFetch(has_file_url)
    \/ \E delivered \in BOOLEAN : ReportProcessing(delivered)
    \/ \E is_valid \in BOOLEAN : CheckCorruption(is_valid)
    \/ \E success \in BOOLEAN, rechecked \in BOOLEAN, delivered \in BOOLEAN :
          RepairPdf(success, rechecked, delivered)
    \/ \E rendered \in BOOLEAN, delivered \in BOOLEAN :
          Render(rendered, delivered)
    \/ StartIteration
    \/ \E outcome \in LifeOutcomes(i, group_size) : AnalyzeWindow(outcome)
    \/ AcceptWindow
    \/ FinishSegmentation
    \/ BeginArtifacts
    \/ \E upload \in {"ok", "pdf_fails", "json_fails"} : WriteGroup(upload)
    \/ \E batch \in BatchOutcomes, single_ok \in SUBSET DOMAIN batch_invoices,
          delivered \in BOOLEAN :
          FinishArtifacts(batch, single_ok, delivered)
    \/ \E delivered \in BOOLEAN : HandleException(delivered)
    \/ MainExit

SpecLife == LifeInit /\ [][LifeNext]_vars

(* ------------------- the records and PDFs a pass writes ---------------- *)

\* longest document of SpecShape
ShapePages == 2

\* the oracle of SpecShape: every answer reports a complete invoice; it
\* carries every field (with or without an invoice number), or no field at
\* all, or "line_items": null, or no line_items key
ShapeOutcomes(cursor, size) ==
    LET item == List(<<ItemOf(cursor, size)>>)
        full(p) == Answer(TRUE, TRUE, FALSE, "num", p)
    IN  {[kind |-> "json", json |-> r] :
            r \in {full([inv |-> None, items |-> item]),
                   full([inv |-> Str("A"), items |-> item]),
                   full([inv |-> Str("A"), items |-> None]),
                   full([inv |-> Str("A"), items |-> Absent]),
                   [full([inv |-> None, items |-> item])
                       EXCEPT !.data = [f \in DataFields |-> Absent]]}}

\* process_pdf when the segmentation loop starts: 'processing' is reported,
\* the document passed the integrity check and was rendered
AfterRender(pages) ==
    /\ pc = "outer"
    /\ total_pages \in pages
    /\ i = 0
    /\ group_size = 0
    /\ found_invoice = FALSE
    /\ best_group = <<>>
    /\ best_result = <<>>
    /\ invoice_data_list = <<>>
    /\ session_invoices = EmptyDict
    /\ window_log = <<>>
    /\ calls = <<>>
    /\ skipped = {}
    /\ simple_run = [ok |-> TRUE, numbers |-> {}]
    /\ all_errors = TRUE
    /\ status_log = <<[status |-> "processing", delivered |-> TRUE]>>
    /\ events = <<Ev("report_processing", 0, TRUE), Ev("check", 0, TRUE),
                  Ev("render", 0, TRUE)>>
    /\ pdf_path = "original"
    /\ errors_dir = {}
    /\ group_idx = 0
    /\ output_files = <<>>
    /\ s3 = {}
    /\ batch_invoices = <<>>
    /\ records = {}
    /\ returned = <<>>
    /\ abort = "none"
    /\ exit_code = -1
    /\ disk = EmptyDict

ShapeInit ==
    /\ AfterRender(1..ShapePages)
    /\ MergeIdle
    /\ PairIdle
    /\ WorkerIdle
    /\ MoreIdle

ShapeNext ==
    \/ StartIteration
    \/ \E outcome \in ShapeOutcomes(i, group_size) : AnalyzeWindow(outcome)
    \/ AcceptWindow
    \/ FinishSegmentation
    \/ BeginArtifacts
    \/ \E upload \in {"ok", "pdf_fails"} : WriteGroup(upload)

SpecShape == ShapeInit /\ [][ShapeNext]_vars

\* extract_pages_to_pdf on its own, and inside a pass
FilesInit == ExtractInit \/ ShapeInit

FilesNext == ExtractCall \/ ShapeNext

SpecFiles == FilesInit /\ [][FilesNext]_vars

(* ------------------ two attachments processed side by side ------------- *)

\* longest document of SpecPair
PairPages == 2

\* the attachment ids of the two process_pdf calls
PairIds == {1, 2}

\* the invoice numbers the oracle of SpecPair answers with
PairNumbers == {None, Str("A")}

\* the locals of a process_pdf call when its segmentation loop starts;
\* answered is the history of the invoice numbers of its accepted windows
FreshInstance(pages) ==
    [pc |-> "segment", total_pages |-> pages, i |-> 0,
     invoice_data_list |-> <<>>, session_invoices |-> EmptyDict,
     group_idx |-> 1, answered |-> <<>>]

PairInit ==
    /\ instances \in [PairIds -> {FreshInstance(n) : n \in 1..PairPages}]
    /\ disk_writes = {}
    /\ bucket_writes = {}
    /\ actor = 0
    /\ SegIdle
    /\ MergeIdle
    /\ LifeIdle
    /\ WorkerIdle
    /\ MoreIdle

\* one iteration of the while loop of the call for attachment a, the oracle
\* answering the one-page window at the cursor as a complete invoice with
\* invoice number n: the window is merged into the group registered under n
\* in this call's session_invoices, or appended and registered
PairAccept(a, n) ==
    LET me == instances[a]
        best_group_a == PyRange(me.i, me.i + 1)
        result == Answer(TRUE, TRUE, FALSE, "num",
                         [inv |-> n, items |-> List(<<ItemOf(me.i, 1)>>)])
        invoice_data == InvoiceDataOf(result)
        invoice_num == invoice_data["invoice_number"]
        merged == ShouldMerge(invoice_num, me.session_invoices)
        cursor == Advance(me.i, best_group_a)
    IN  /\ me.pc = "segment"
        /\ me.i < me.total_pages
        /\ instances' =
             [instances EXCEPT ![a] =
                [me EXCEPT
                   !.invoice_data_list =
                      IF merged
                      THEN [@ EXCEPT ![me.session_invoices[invoice_num] + 1] =
                               MergeInto(@, invoice_data, best_group_a)]
                      ELSE Append(@, [invoice_data |-> invoice_data,
                                      page_indices |-> best_group_a]),
                   !.session_invoices =
                      IF merged
                      THEN @
                      ELSE Register(@, invoice_num,
                                    Len(me.invoice_data_list)),
                   !.i = cursor,
                   !.answered = Append(@, n),
                   !.pc = IF cursor < me.total_pages
                          THEN "segment" ELSE "write"]]
        /\ actor' = a
        /\ UNCHANGED <<disk_writes, bucket_writes>>
        /\ UNCHANGED <<segVars, mergeVars, lifeVars, workerVars, moreVars>>

\* one iteration of the artifact loop of the call for attachment a: the PDF
\* and the JSON are written under output_dir and uploaded
PairWrite(a) ==
    LET me == instances[a]
        invoice_data == me.invoice_data_list[me.group_idx].invoice_data
        invoice_num == Get(invoice_data, "invoice_number", None)
        filename == OutputFilename("original", invoice_num, me.group_idx)
    IN  /\ me.pc = "write"
        /\ disk_writes' = disk_writes
              \cup {[path |-> OutputPath(a, filename), by |-> a]}
        /\ bucket_writes' = bucket_writes
              \cup {[key |-> S3Key(a, filename, ext), by |-> a] :
                       ext \in {"pdf", "json"}}
        /\ instances' =
             [instances EXCEPT ![a] =
                [me EXCEPT
                   !.group_idx = @ + 1,
                   !.pc = IF me.group_idx < Len(me.invoice_data_list)
                          THEN "write" ELSE "done"]]
        /\ actor' = a
        /\ UNCHANGED <<segVars, mergeVars, lifeVars, workerVars, moreVars>>

PairNext ==
    \E a \in PairIds :
        \/ \E n \in PairNumbers : PairAccept(a, n)
        \/ PairWrite(a)

SpecPair == PairInit /\ [][PairNext]_vars

(* ------------------------------ SQS worker ----------------------------- *)

\* the number of messages in the queue of SpecWorker
QueueLen == 2

\* after SQSWorker(): running is False and the handlers of SIGTERM and
\* SIGINT are installed; run() has not been called yet
WorkerInit ==
    /\ running = FALSE
    /\ wpc = "constructed"
    /\ queue = 1..QueueLen
    /\ messages = <<>>
    /\ msg_success = FALSE
    /\ attempt = "none"
    /\ deleted = {}
    /\ signalled = FALSE
    /\ SegIdle
    /\ MergeIdle
    /\ LifeIdle
    /\ PairIdle
    /\ MoreIdle

\* _signal_handler: self.running = False; runs between any two steps of the
\* worker once the handlers are installed
SignalHandler ==
    /\ wpc \notin {"off", "stopped"}
    /\ running' = FALSE
    /\ signalled' = TRUE
    /\ UNCHANGED <<wpc, queue, messages, msg_success, attempt, deleted>>
    /\ UNCHANGED <<segVars, mergeVars, lifeVars, pairVars, moreVars>>

\* run(): self.running = True
Run ==
    /\ wpc = "constructed"
    /\ running' = TRUE
    /\ wpc' = "while"
    /\ UNCHANGED <<queue, messages, msg_success, attempt, deleted, signalled>>
    /\ UNCHANGED <<segVars, mergeVars, lifeVars, pairVars, moreVars>>

\* while self.running: the receive_message call is issued, or the loop ends
\* ("SQS worker stopped")
WhileTest ==
    /\ wpc = "while"
    /\ wpc' = IF running THEN "receiving" ELSE "stopped"
    /\ UNCHANGED <<running, queue, messages, msg_success, attempt, deleted,
                   signalled>>
    /\ UNCHANGED <<segVars, mergeVars, lifeVars, pairVars, moreVars>>

\* receive_message returns: it raised (the error is logged, sleep(5)), or
\* there is no message (continue), or there is one message of the queue
ReceiveReturn(outcome) ==
    /\ wpc = "receiving"
    /\ IF outcome.kind \in {"error", "empty"}
       THEN /\ wpc' = "while"
            /\ UNCHANGED messages
       ELSE /\ outcome.message \in queue
            /\ messages' = <<outcome.message>>
            /\ wpc' = "for"
    /\ UNCHANGED <<running, queue, msg_success, attempt, deleted, signalled>>
    /\ UNCHANGED <<segVars, mergeVars, lifeVars, pairVars, moreVars>>

\* for message in messages: if not self.running: break; else
\* process_message(message) starts
ForTest ==
    /\ wpc = "for"
    /\ wpc' = IF messages = <<>> \/ ~running THEN "while" ELSE "processing"
    /\ UNCHANGED <<running, queue, messages, msg_success, attempt, deleted,
                   signalled>>
    /\ UNCHANGED <<segVars, mergeVars, lifeVars, pairVars, moreVars>>

\* the ways one process_message call can go: the body is not JSON or has
\* no attachment_id, the metadata fetch raises, the metadata has no
\* fileUrl, the download raises, process_pdf returns [] (integrity, repair
\* or render failure, or no group), process_pdf raises, process_pdf returns
\* files
AttemptOutcomes ==
    {"bad_body", "no_attachment_id", "metadata_error", "no_file_url",
     "download_error", "returned_empty", "process_pdf_raised",
     "returned_files"}

\* process_message without its try/except Exception
process_message_unguarded(outcome) ==
    [raised  |-> outcome \in {"bad_body", "metadata_error", "no_file_url",
                              "download_error", "process_pdf_raised"},
     success |-> outcome = "returned_files"]

\* process_message returning True whatever happened
process_message_always_true(outcome) ==
    [raised  |-> FALSE,
     success |-> TRUE]

\* process_message: True when process_pdf returned files; False when there
\* is no attachment_id, when process_pdf returned none, and, by the
\* except Exception around the whole body, when anything raised
process_message(outcome) ==
    [raised  |-> FALSE,
     success |-> outcome = "returned_files"]

\* success = self.process_message(message); an exception out of it would be
\* caught by run's except Exception (logged, sleep(5), back to the while)
ProcessMessage(outcome) ==
    LET result == process_message(outcome)
    IN  /\ wpc = "processing"
        /\ attempt' = outcome
        /\ IF result.raised
           THEN /\ wpc' = "while"
                /\ UNCHANGED msg_success
           ELSE /\ wpc' = "processed"
                /\ msg_success' = result.success
        /\ UNCHANGED <<running, queue, messages, deleted, signalled>>
        /\ UNCHANGED <<segVars, mergeVars, lifeVars, pairVars, moreVars>>

\* if success: self.delete_message(message) (a ClientError of the delete is
\* logged and the message stays); else the message is left for a retry
AfterProcess(delete_ok) ==
    LET message == Head(messages)
    IN  /\ wpc = "processed"
        /\ IF msg_success
           THEN /\ deleted' = deleted \cup {message}
                /\ queue' = IF delete_ok THEN queue \ {message} ELSE queue
           ELSE UNCHANGED <<deleted, queue>>
        /\ messages' = Tail(messages)
        /\ wpc' = "for"
        /\ UNCHANGED <<running, msg_success, attempt, signalled>>
        /\ UNCHANGED <<segVars, mergeVars, lifeVars, pairVars, moreVars>>

\* what a receive_message call can return
ReceiveOutcomes ==
    {[kind |-> "error", message |-> 0], [kind |-> "empty", message |-> 0]}
    \cup {[kind |-> "message", message |-> m] : m \in queue}

WorkerNext ==
    \/ SignalHandler
    \/ Run
    \/ WhileTest
    \/ \E outcome \in ReceiveOutcomes : ReceiveReturn(outcome)
    \/ ForTest
    \/ \E outcome \in AttemptOutcomes : ProcessMessage(outcome)
    \/ \E delete_ok \in BOOLEAN : AfterProcess(delete_ok)

SpecWorker == WorkerInit /\ [][WorkerNext]_vars

(* ---------------------------- Lambda handler --------------------------- *)

\* the most records in the event of SpecLambda
LambdaRecords == 2

\* what the body of an SQS record can be and how its attachment fares: the
\* ways of AttemptOutcomes, with a body that is valid JSON but not an
\* object (null, a list, a string, a number) told apart from one that is
\* not JSON
RecordKinds == (AttemptOutcomes \ {"bad_body"}) \cup {"not_json", "not_object"}

\* the attachment id in the body of the record at position k
AttachmentOf(k) == 10 + k

LambdaInit ==
    /\ event_records \in SeqsUpTo(RecordKinds, LambdaRecords)
    /\ record_idx = 1
    /\ message_body = [bound |-> FALSE, object |-> FALSE, attachment_id |-> 0]
    /\ processed_attachments = <<>>
    /\ failed_attachments = <<>>
    /\ response = [statusCode |-> 0, processed_count |-> 0, failed_count |-> 0]
    /\ ExtractIdle
    /\ SerialIdle
    /\ RedoIdle
    /\ ToolIdle
    /\ SegIdle
    /\ MergeIdle
    /\ LifeIdle
    /\ PairIdle
    /\ WorkerIdle

\* message_body after json.loads(record['body']): rebound when the body
\* parses, left as the previous record left it when it does not
BodyAfterParse(body, kind, k) ==
    CASE kind = "not_json" -> body
      [] kind = "not_object" ->
            [bound |-> TRUE, object |-> FALSE, attachment_id |-> 0]
      [] kind = "no_attachment_id" ->
            [bound |-> TRUE, object |-> TRUE, attachment_id |-> 0]
      [] OTHER ->
            [bound |-> TRUE, object |-> TRUE, attachment_id |-> AttachmentOf(k)]

\* the except branch of the inner try builds its entry with
\* message_body.get('attachment_id') if 'message_body' in locals() else None:
\* .get raises again when message_body is bound to something that is not a
\* dict
HandlerRaises(body) == body.bound /\ ~body.object

\* one iteration of for record in event.get('Records', []): the entry is
\* appended to processed_attachments or failed_attachments; an exception
\* raised inside the inner except branch reaches the outer except, which
\* returns the 500 response
HandleRecord ==
    LET kind == event_records[record_idx]
        body == BodyAfterParse(message_body, kind, record_idx)
        raised == kind \in {"not_json", "not_object", "metadata_error",
                            "no_file_url", "download_error",
                            "process_pdf_raised"}
        entry == [record |-> record_idx, attachment_id |-> body.attachment_id]
    IN  /\ response.statusCode = 0
        /\ record_idx <= Len(event_records)
        /\ message_body' = body
        /\ IF raised /\ HandlerRaises(body)
           THEN /\ response' =
                     [statusCode |-> 500,
                      processed_count |-> Len(processed_attachments),
                      failed_count |-> Len(failed_attachments) + 1]
                /\ UNCHANGED <<record_idx, processed_attachments,
                               failed_attachments>>
           ELSE /\ IF kind = "returned_files"
                   THEN /\ processed_attachments' =
                             Append(processed_attachments, entry)
                        /\ UNCHANGED failed_attachments
                   ELSE /\ failed_attachments' =
                             Append(failed_attachments, entry)
                        /\ UNCHANGED processed_attachments
                /\ record_idx' = record_idx + 1
                /\ UNCHANGED response
        /\ UNCHANGED event_records
        /\ UNCHANGED <<segVars, mergeVars, lifeVars, pairVars, workerVars,
                       extractVars, serialVars, redoVars,
                   toolVars>>

\* after the loop: the 200 response with the two counts
HandlerReturn ==
    /\ response.statusCode = 0
    /\ record_idx > Len(event_records)
    /\ response' = [statusCode |-> 200,
                    processed_count |-> Len(processed_attachments),
                    failed_count |-> Len(failed_attachments)]
    /\ UNCHANGED <<event_records, record_idx, message_body,
                   processed_attachments, failed_attachments>>
    /\ UNCHANGED <<segVars, mergeVars, lifeVars, pairVars, workerVars,
                   extractVars, serialVars, redoVars,
                   toolVars>>

LambdaNext == HandleRecord \/ HandlerReturn

SpecLambda == LambdaInit /\ [][LambdaNext]_vars

(* ------------------------------ redelivery ----------------------------- *)

\* longest document of SpecRedo, and the number of process_pdf calls made
\* for it
RedoPages == 2
RedoPasses == 2

\* the windows the loop can ask about in a document of n pages
Windows(n) ==
    {w \in (0..(n - 1)) \X (1..n) : w[1] + w[2] <= n}

\* the answers the oracle of SpecRedo chooses from for a window: a complete
\* invoice without a number, a complete invoice numbered A, or no start
RedoAnswers(cursor, size) ==
    LET item == List(<<ItemOf(cursor, size)>>)
    IN  <<[kind |-> "json",
           json |-> Answer(TRUE, TRUE, FALSE, "num",
                           [inv |-> None, items |-> item])],
          [kind |-> "json",
           json |-> Answer(TRUE, TRUE, FALSE, "num",
                           [inv |-> Str("A"), items |-> item])],
          [kind |-> "json",
           json |-> Answer(FALSE, FALSE, FALSE, "num",
                           [inv |-> None, items |-> item])]>>

\* the pass resumes after the pages of the PDFs already on disk
StartCursor_resume(leftover) ==
    IF leftover = EmptyDict THEN 0
    ELSE Len(leftover[CHOOSE path \in DOMAIN leftover : TRUE].pdf)

\* i = 0: the cursor a process_pdf call starts with, whatever output_dir holds
StartCursor(leftover) == 0

RedoInit ==
    /\ AfterRender(1..RedoPages)
    /\ script \in [Windows(total_pages) -> 1..3]
    /\ pass_no = 1
    /\ results = <<>>
    /\ LambdaIdle
    /\ ExtractIdle
    /\ SerialIdle
    /\ ToolIdle
    /\ MergeIdle
    /\ PairIdle
    /\ WorkerIdle

\* the oracle answers as the script says
ScriptedAnalyze ==
    /\ <<i, group_size>> \in DOMAIN script
    /\ AnalyzeWindow(RedoAnswers(i, group_size)[script[<<i, group_size>>]])

\* the message is delivered again (the previous call ended, or was killed
\* at this point): process_pdf starts over with new locals; the bucket and
\* the output directory hold what the previous call left
Redeliver ==
    /\ pass_no < RedoPasses
    /\ pass_no' = pass_no + 1
    /\ results' = IF pc \in {"segmented", "write"}
                  THEN Append(results, invoice_data_list)
                  ELSE results
    /\ pc' = "outer"
    /\ i' = StartCursor(disk)
    /\ group_size' = 0
    /\ found_invoice' = FALSE
    /\ best_group' = <<>>
    /\ best_result' = <<>>
    /\ invoice_data_list' = <<>>
    /\ session_invoices' = EmptyDict
    /\ window_log' = <<>>
    /\ calls' = <<>>
    /\ skipped' = {}
    /\ simple_run' = [ok |-> TRUE, numbers |-> {}]
    /\ all_errors' = TRUE
    /\ status_log' = <<[status |-> "processing", delivered |-> TRUE]>>
    /\ events' = <<Ev("report_processing", 0, TRUE), Ev("check", 0, TRUE),
                   Ev("render", 0, TRUE)>>
    /\ group_idx' = 0
    /\ output_files' = <<>>
    /\ batch_invoices' = <<>>
    /\ UNCHANGED <<total_pages, pdf_path, errors_dir, s3, records, returned,
                   abort, exit_code, disk, script>>
    /\ UNCHANGED <<mergeVars, pairVars, workerVars, lambdaVars, extractVars,
                   serialVars, toolVars>>

RedoNext ==
    \/ StartIteration
    \/ ScriptedAnalyze
    \/ AcceptWindow
    \/ FinishSegmentation
    \/ BeginArtifacts
    \/ WriteGroup("ok")
    \/ Redeliver

SpecRedo == RedoInit /\ [][RedoNext]_vars

(* ------------------------------ repair_pdf ----------------------------- *)

\* the paths repair_pdf is called with, as the pieces str.replace sees: a
\* file name with the suffix .pdf (also inside a directory, also inside a
\* directory whose own name ends in .pdf, also with the suffix twice), with
\* the suffix in capitals, and without a suffix
RepairPaths ==
    {<<"scan", ".pdf">>,
     <<"in", "/", "scan", ".pdf">>,
     <<"in", ".pdf", "/", "scan", ".pdf">>,
     <<"scan", ".pdf", ".pdf">>,
     <<"scan", ".PDF">>,
     <<"scan">>}

\* what check_pdf_corruption rejected the input for
CorruptKinds == {"damaged", "truncated", "no_pages"}

\* repaired_path = pdf_path.replace(".pdf", "_repaired.pdf"): every
\* occurrence is replaced, and a path without one is returned as it is
RepairedPath(path) ==
    [k \in DOMAIN path |->
        IF path[k] = ".pdf" THEN "_repaired.pdf" ELSE path[k]]

\* the directory part of a path
DirOf(path) ==
    LET slashes == {k \in DOMAIN path : path[k] = "/"}
    IN  IF slashes = {}
        THEN <<>>
        ELSE SubSeq(path, 1, (CHOOSE k \in slashes :
                                 \A j \in slashes : j <= k) - 1)

\* the file system after open(path, "wb") or a write to it
WithFile(fsys, path, content) ==
    [q \in DOMAIN fsys \cup {path} |->
        IF q = path THEN content ELSE fsys[q]]

\* the file system after os.remove(path)
WithoutFile(fsys, path) == [q \in DOMAIN fsys \ {path} |-> fsys[q]]

\* return False, f"Repair error: ..." or f"Repair failed: ..."
RepairFailure == [success |-> FALSE, path |-> <<>>]

\* repair_pdf is called on a document the integrity check rejected; only
\* the document and its directory exist
RepairInit ==
    /\ repair_input \in RepairPaths
    /\ \E kind \in CorruptKinds : file_system = (repair_input :> kind)
    /\ repair_reader = "none"
    /\ repair_pc = "read"
    /\ repair_result = RepairFailure
    /\ TempIdle
    /\ GroupIdle
    /\ SegIdle
    /\ MergeIdle
    /\ LifeIdle
    /\ PairIdle
    /\ WorkerIdle
    /\ LambdaIdle
    /\ ExtractIdle
    /\ SerialIdle
    /\ RedoIdle

\* reader = PdfReader(pdf_path, strict=False) and the add_page loop: the
\* pages are read into memory, or an exception ends the call in the except
\* branch
ReadLenient(ok) ==
    /\ repair_pc = "read"
    /\ IF ok
       THEN /\ repair_reader' = file_system[repair_input]
            /\ repair_pc' = "open"
       ELSE /\ repair_pc' = "done"
            /\ UNCHANGED repair_reader
    /\ UNCHANGED <<repair_input, file_system, repair_result>>
    /\ UNCHANGED <<segVars, mergeVars, lifeVars, pairVars, workerVars,
                   lambdaVars, extractVars, serialVars, redoVars,
                   tempVars, groupVars>>

\* with open(repaired_path, "wb") as output_file: the file is created, or
\* truncated when there is one; without the directory the open raises
OpenOutput ==
    /\ repair_pc = "open"
    /\ IF DirOf(RepairedPath(repair_input)) = DirOf(repair_input)
       THEN /\ file_system' = WithFile(file_system,
                                       RepairedPath(repair_input), "empty")
            /\ repair_pc' = "write"
       ELSE /\ repair_pc' = "done"
            /\ UNCHANGED file_system
    /\ UNCHANGED <<repair_input, repair_reader, repair_result>>
    /\ UNCHANGED <<segVars, mergeVars, lifeVars, pairVars, workerVars,
                   lambdaVars, extractVars, serialVars, redoVars,
                   tempVars, groupVars>>

\* what writer.write can leave in the file: the rebuilt document (sound, or
\* still unreadable; without pages when the input had none), or a part of
\* it when the write raises
WriteOutcomes(read) ==
    IF read = "no_pages"
    THEN {"rebuilt_no_pages", "partial"}
    ELSE {"rebuilt", "rebuilt_damaged", "partial"}

\* writer.write(output_file); an exception ends the call in the except
\* branch, which removes nothing
WriteOutput(outcome) ==
    /\ repair_pc = "write"
    /\ outcome \in WriteOutcomes(repair_reader)
    /\ file_system' = WithFile(file_system, RepairedPath(repair_input),
                               outcome)
    /\ repair_pc' = IF outcome = "partial" THEN "done" ELSE "verify"
    /\ UNCHANGED <<repair_input, repair_reader, repair_result>>
    /\ UNCHANGED <<segVars, mergeVars, lifeVars, pairVars, workerVars,
                   lambdaVars, extractVars, serialVars, redoVars,
                   tempVars, groupVars>>

\* check_pdf_corruption: the document can be read and has a page
check_pdf_corruption(content) == content = "rebuilt"

\* is_valid, error = self.check_pdf_corruption(repaired_path): return True,
\* repaired_path, or os.remove(repaired_path) and return False
VerifyOutput ==
    /\ repair_pc = "verify"
    /\ IF check_pdf_corruption(file_system[RepairedPath(repair_input)])
       THEN /\ repair_result' = [success |-> TRUE,
                                 path |-> RepairedPath(repair_input)]
            /\ UNCHANGED file_system
       ELSE /\ file_system' = WithoutFile(file_system,
                                          RepairedPath(repair_input))
            /\ UNCHANGED repair_result
    /\ repair_pc' = "done"
    /\ UNCHANGED <<repair_input, repair_reader>>
    /\ UNCHANGED <<segVars, mergeVars, lifeVars, pairVars, workerVars,
                   lambdaVars, extractVars, serialVars, redoVars,
                   tempVars, groupVars>>

RepairNext ==
    \/ \E ok \in BOOLEAN : ReadLenient(ok)
    \/ OpenOutput
    \/ \E outcome \in {"rebuilt", "rebuilt_damaged", "rebuilt_no_pages",
                       "partial"} : WriteOutput(outcome)
    \/ VerifyOutput

SpecRepair == RepairInit /\ [][RepairNext]_vars

(* ------------------- the front-ends' temporary input ------------------- *)

\* the attachments a front-end handles in turn in SpecTemp
TempAttempts == 2

\* how the metadata fetch, the download and process_pdf can go
FetchOutcomes == {"ok", "metadata_error", "no_file_url"}

\* the download ends before the local file is opened (the request failed
\* or was answered with an error status), or while its chunks are being
\* written, or completes
DownloadOutcomes == {"ok", "download_error", "download_cut"}

ProcessOutcomes == {"returned_files", "returned_empty", "process_pdf_raised"}

\* cli.main: everything is inside one try whose finally removes the file
main_after(stage, outcome) == "finally"

\* SQSWorker.process_message: the try with the finally starts after the
\* download; an exception before it is caught by the outer except, which
\* returns False
process_message_after(stage, outcome) ==
    IF stage = "process" THEN "finally" ELSE "end"

\* handler: os.remove follows the process_pdf call inside the try of the
\* record, so it is reached only when process_pdf returned; any exception
\* goes to the except branch, which appends the failure entry
handler_after(stage, outcome) ==
    IF stage = "process" /\ outcome # "process_pdf_raised"
    THEN "finally"
    ELSE "end"

\* where the front-end goes once a stage has failed or process_pdf is over
FrontAfter(stage, outcome) ==
    CASE frontend = "cli" -> main_after(stage, outcome)
      [] frontend = "worker" -> process_message_after(stage, outcome)
      [] frontend = "lambda" -> handler_after(stage, outcome)

\* download_pdf_from_url(file_url, temp_pdf_path): the file it leaves
Downloaded(dir, path, outcome) ==
    CASE outcome = "ok" -> dir \cup {[path |-> path, content |-> "complete"]}
      [] outcome = "download_cut" ->
             dir \cup {[path |-> path, content |-> "partial"]}
      [] outcome = "download_error" -> dir

\* os.remove(temp_pdf_path), guarded by os.path.exists in cli.main and by
\* try/except in the worker and the handler
Removed(dir, path) == {f \in dir : f.path # path}

\* one of the front-ends starts on its first attachment
TempInit ==
    /\ frontend \in {"cli", "worker", "lambda"}
    /\ front_pc = "fetch"
    /\ attempt_no = 1
    /\ temp_pdf_path = 0
    /\ tmp_dir = {}
    /\ front_log = <<>>
    /\ RepairIdle
    /\ GroupIdle
    /\ SegIdle
    /\ MergeIdle
    /\ LifeIdle
    /\ PairIdle
    /\ WorkerIdle
    /\ LambdaIdle
    /\ ExtractIdle
    /\ SerialIdle
    /\ RedoIdle

\* fetch_attachment_metadata and the fileUrl test
FrontFetch(outcome) ==
    /\ front_pc = "fetch"
    /\ IF outcome = "ok"
       THEN /\ front_pc' = "download"
            /\ UNCHANGED front_log
       ELSE /\ front_pc' = FrontAfter("fetch", outcome)
            /\ front_log' = Append(front_log, outcome)
    /\ UNCHANGED <<frontend, attempt_no, temp_pdf_path, tmp_dir>>
    /\ UNCHANGED <<segVars, mergeVars, lifeVars, pairVars, workerVars,
                   lambdaVars, extractVars, serialVars, redoVars,
                   repairVars, groupVars>>

\* temp_pdf_path = tempfile.mktemp(...) (os.path.join('/tmp', ...) in the
\* handler), one name per attachment, then download_pdf_from_url
FrontDownload(outcome) ==
    /\ front_pc = "download"
    /\ temp_pdf_path' = attempt_no
    /\ tmp_dir' = Downloaded(tmp_dir, attempt_no, outcome)
    /\ IF outcome = "ok"
       THEN /\ front_pc' = "process"
            /\ UNCHANGED front_log
       ELSE /\ front_pc' = FrontAfter("download", outcome)
            /\ front_log' = Append(front_log, outcome)
    /\ UNCHANGED <<frontend, attempt_no>>
    /\ UNCHANGED <<segVars, mergeVars, lifeVars, pairVars, workerVars,
                   lambdaVars, extractVars, serialVars, redoVars,
                   repairVars, groupVars>>

\* output_files = processor.process_pdf(temp_pdf_path, attachment_id, ...):
\* it returns files, returns none, or raises; it leaves the input in place
FrontProcess(outcome) ==
    /\ front_pc = "process"
    /\ front_pc' = FrontAfter("process", outcome)
    /\ front_log' = Append(front_log, outcome)
    /\ UNCHANGED <<frontend, attempt_no, temp_pdf_path, tmp_dir>>
    /\ UNCHANGED <<segVars, mergeVars, lifeVars, pairVars, workerVars,
                   lambdaVars, extractVars, serialVars, redoVars,
                   repairVars, groupVars>>

\* the clean-up: the file at temp_pdf_path is removed when there is one
FrontCleanup ==
    /\ front_pc = "finally"
    /\ tmp_dir' = IF temp_pdf_path # 0
                  THEN Removed(tmp_dir, temp_pdf_path)
                  ELSE tmp_dir
    /\ front_pc' = "end"
    /\ UNCHANGED <<frontend, attempt_no, temp_pdf_path, front_log>>
    /\ UNCHANGED <<segVars, mergeVars, lifeVars, pairVars, workerVars,
                   lambdaVars, extractVars, serialVars, redoVars,
                   repairVars, groupVars>>

\* the next attachment: the next invocation of the CLI, the next message of
\* the worker, the next record of the Lambda event; the handler's
\* temp_pdf_path stays bound, the others' is a new local
FrontNextAttachment ==
    /\ front_pc = "end"
    /\ attempt_no < TempAttempts
    /\ attempt_no' = attempt_no + 1
    /\ temp_pdf_path' = IF frontend = "lambda" THEN temp_pdf_path ELSE 0
    /\ front_pc' = "fetch"
    /\ UNCHANGED <<frontend, tmp_dir, front_log>>
    /\ UNCHANGED <<segVars, mergeVars, lifeVars, pairVars, workerVars,
                   lambdaVars, extractVars, serialVars, redoVars,
                   repairVars, groupVars>>

TempNext ==
    \/ \E outcome \in FetchOutcomes : FrontFetch(outcome)
    \/ \E outcome \in DownloadOutcomes : FrontDownload(outcome)
    \/ \E outcome \in ProcessOutcomes : FrontProcess(outcome)
    \/ FrontCleanup
    \/ FrontNextAttachment

SpecTemp == TempInit /\ [][TempNext]_vars

(* ----------------------- group_pages_into_invoices --------------------- *)

\* the most per-page analyses in SpecGroup
GroupPages == 3

\* the values "is_invoice_start" has in a per-page analysis: true, false,
\* null, or no such key
StartValues == {Bool(TRUE), Bool(FALSE), None, Absent}

\* the for loop over range(1, len(analyses)), at page number page, and the
\* statements after it
RECURSIVE GroupLoop(_, _, _, _)
GroupLoop(list, page, groups, current_group) ==
    IF page >= Len(list)
    THEN IF current_group # <<>>
         THEN Append(groups, current_group)
         ELSE groups
    ELSE IF Truthy(Get(list[page + 1], "is_invoice_start", Bool(FALSE)))
         THEN GroupLoop(list, page + 1, Append(groups, current_group),
                        <<page>>)
         ELSE GroupLoop(list, page + 1, groups,
                        Append(current_group, page))

\* every page in one group
group_pages_into_invoices_single(list) ==
    IF list = <<>> THEN <<>> ELSE <<PyRange(0, Len(list))>>

\* group_pages_into_invoices(analyses): [] for no analyses, else
\* current_group = [0] and the loop from page 1 on
group_pages_into_invoices(list) ==
    IF list = <<>> THEN <<>> ELSE GroupLoop(list, 1, <<>>, <<0>>)

GroupInit ==
    /\ analyses \in SeqsUpTo({[is_invoice_start |-> v] : v \in StartValues},
                            GroupPages)
    /\ invoice_groups = <<>>
    /\ group_pc = "call"
    /\ RepairIdle
    /\ TempIdle
    /\ SegIdle
    /\ MergeIdle
    /\ LifeIdle
    /\ PairIdle
    /\ WorkerIdle
    /\ LambdaIdle
    /\ ExtractIdle
    /\ SerialIdle
    /\ RedoIdle

\* invoice_groups = self.group_pages_into_invoices(analyses)
GroupCall ==
    /\ group_pc = "call"
    /\ invoice_groups' = group_pages_into_invoices(analyses)
    /\ group_pc' = "done"
    /\ UNCHANGED analyses
    /\ UNCHANGED <<segVars, mergeVars, lifeVars, pairVars, workerVars,
                   lambdaVars, extractVars, serialVars, redoVars,
                   repairVars, tempVars>>

GroupNext == GroupCall

SpecGroup == GroupInit /\ [][GroupNext]_vars

(* ============================== properties ============================= *)

Groups == invoice_data_list

NumberOf(group) == group.invoice_data["invoice_number"]

ItemsOf(group) == group.invoice_data["line_items"]

\* the places <<group, position>> of the final groups' page_indices
PagePlaces ==
    UNION {{<<k, j>> : j \in DOMAIN Groups[k].page_indices} : k \in DOMAIN Groups}

\* how many times page p occurs in the groups' page_indices
Occurrences(p) ==
    Cardinality({pl \in PagePlaces : Groups[pl[1]].page_indices[pl[2]] = p})

AllPagesInDocument ==
    \A pl \in PagePlaces :
        Groups[pl[1]].page_indices[pl[2]] \in 0..(total_pages - 1)

\* the answer reports a complete invoice, or a start without continuation
ReportsAccept(r) ==
    r.is_complete_invoice \/ (r.is_invoice_start /\ ~r.has_continuation)

\* the sizes at the current cursor whose answer reported an invoice start
StartSizes == {k \in DOMAIN window_log : window_log[k].is_invoice_start}

\* the sizes at the current cursor whose answer made the engine accept
AcceptSizes == {k \in DOMAIN window_log : ReportsAccept(window_log[k])}

SetMax(S) == CHOOSE x \in S : \A y \in S : y <= x

SetMin(S) == CHOOSE x \in S : \A y \in S : x <= y

\* the pages [i, i+size)
Window(cursor, size) == [j \in 1..size |-> cursor + j - 1]

\* the record fields one answer carries
RecordOf(r) == [f \in DataFields |-> r.data[f]]

NoStartAtCursor ==
    /\ pc = "decide"
    /\ ~found_invoice
    /\ StartSizes = {}

VisitedCursors == {calls[k].cursor : k \in DOMAIN calls}

RECURSIVE CallBudget(_)
\* the sum over the cursors in S of min(10, N - cursor)
CallBudget(S) ==
    IF S = {} THEN 0
    ELSE LET c == CHOOSE x \in S : TRUE
         IN  Min(10, total_pages - c) + CallBudget(S \ {c})

(* C3: for every oracle behaviour the segmentation loop ends with the       *)
(* cursor at N; the cursor strictly increases on every outer iteration; no  *)
(* window (cursor, size) is submitted twice, so a pass makes at most the    *)
(* sum over the visited cursors of min(10, N - i) oracle calls.             *)
C3_TerminatesAtN ==
    /\ [](pc \in {"segmented", "raised"} => i = total_pages)
    /\ [](\A j, k \in DOMAIN calls :
             (calls[j].cursor = calls[k].cursor /\ calls[j].size = calls[k].size)
                 => j = k)
    /\ [](Len(calls) <= CallBudget(VisitedCursors))
    /\ [][pc = "decide" => i' > i]_vars

\* the accepted window is [i, i+s) and carries the fields of the answer for
\* that size: it becomes a new last group, or is merged into an earlier one
AcceptsSize(s) ==
    LET record == RecordOf(window_log[s])
        pages == Window(i, s)
    IN  /\ i' = i + s
        /\ \/ invoice_data_list' =
                 Append(invoice_data_list,
                        [invoice_data |-> record, page_indices |-> pages])
           \/ \E k \in DOMAIN invoice_data_list :
                 invoice_data_list' =
                    [invoice_data_list EXCEPT ![k] =
                        [invoice_data |->
                            merge_invoice_data(@.invoice_data, record),
                         page_indices |-> @.page_indices \o pages]]

(* C4: at cursor i the accepted window is the smallest size whose answer    *)
(* reports is_complete_invoice, or is_invoice_start without                 *)
(* has_continuation (is_complete_invoice suffices without is_invoice_start);*)
(* after such an answer no larger window is submitted at that cursor. If    *)
(* every answer of a pass reports is_complete_invoice with an invoice       *)
(* number of its own, the pass ends with N singleton groups in page order   *)
(* after exactly N oracle calls.                                            *)
C4_EarlyAccept ==
    /\ [](pc = "inner" => AcceptSizes = {} /\ Len(window_log) = group_size - 1)
    /\ []((pc = "decide" /\ AcceptSizes # {}) =>
             /\ AcceptSizes = {Len(window_log)}
             /\ best_group = Window(i, Len(window_log)))
    /\ [][(pc = "decide" /\ AcceptSizes # {}) =>
             AcceptsSize(SetMin(AcceptSizes))]_vars
    /\ []((pc = "segmented" /\ simple_run.ok) =>
             /\ Len(calls) = total_pages
             /\ Len(Groups) = total_pages
             /\ \A k \in DOMAIN Groups : Groups[k].page_indices = <<k - 1>>)

\* a window of two pages was accepted on an answer that reports a complete
\* invoice without an invoice start, after a first answer that did not accept
C4_Witness ==
    /\ pc = "outer"
    /\ Len(window_log) = 2
    /\ ~ReportsAccept(window_log[1])
    /\ window_log[2].is_complete_invoice
    /\ ~window_log[2].is_invoice_start
    /\ i = calls[Len(calls)].cursor + 2
    /\ Groups # <<>>

(* C5: if at cursor i no size triggers an immediate accept but at least one *)
(* window reported is_invoice_start, the accepted window is the largest of  *)
(* those windows, the record fields appended or merged are those of the     *)
(* answer for that very window, and the cursor advances by its size.        *)
C5_BestSoFar ==
    /\ []((pc = "decide" /\ AcceptSizes = {} /\ StartSizes # {}) =>
             /\ best_group = Window(i, SetMax(StartSizes))
             /\ best_result = <<window_log[SetMax(StartSizes)]>>)
    /\ [][(pc = "decide" /\ AcceptSizes = {} /\ StartSizes # {}) =>
             AcceptsSize(SetMax(StartSizes))]_vars

\* the fallback accepted a window that is neither the first nor the last
\* tried: two answers reported a start and a later, larger one did not
C5_Witness ==
    /\ pc = "outer"
    /\ AcceptSizes = {}
    /\ Cardinality(StartSizes) >= 2
    /\ SetMax(StartSizes) < Len(window_log)
    /\ i = calls[Len(calls)].cursor + SetMax(StartSizes)
    /\ Groups # <<>>

\* q is one contiguous ascending range of at most 10 pages
ContiguousRange(q) ==
    /\ Len(q) \in 1..10
    /\ \A j \in 1..(Len(q) - 1) : q[j + 1] = q[j] + 1

(* C6: every oracle call covers the contiguous pages [i, i+size) for the    *)
(* current cursor i and 1 <= size <= min(10, N-i); the sizes at one cursor  *)
(* are tried in strictly increasing order from 1; no call includes a page   *)
(* >= N or < the cursor; every group is, when created, one contiguous       *)
(* ascending range of at most 10 pages.                                     *)
C6_WindowBounds ==
    /\ [](\A k \in DOMAIN calls :
             LET c == calls[k]
             IN  /\ c.size >= 1
                 /\ c.size <= Min(10, total_pages - c.cursor)
                 /\ c.pages = Window(c.cursor, c.size)
                 /\ \A j \in DOMAIN c.pages :
                       c.pages[j] >= c.cursor /\ c.pages[j] < total_pages
                 /\ IF k = 1
                    THEN c.cursor = 0 /\ c.size = 1
                    ELSE \/ /\ c.cursor = calls[k - 1].cursor
                            /\ c.size = calls[k - 1].size + 1
                         \/ /\ c.cursor > calls[k - 1].cursor
                            /\ c.size = 1)
    /\ [](pc = "decide" => calls[Len(calls)].cursor = i)
    /\ [][pc = "inner" =>
             /\ Len(calls') = Len(calls) + 1
             /\ calls'[Len(calls')].cursor = i]_vars
    /\ [][Len(invoice_data_list') > Len(invoice_data_list) =>
             /\ Len(invoice_data_list') = Len(invoice_data_list) + 1
             /\ ContiguousRange(
                   invoice_data_list'[Len(invoice_data_list')].page_indices)
             /\ invoice_data_list'[Len(invoice_data_list')].page_indices[1] = i
         ]_vars

\* ten windows were tried at a cursor that has more than ten pages ahead,
\* and the window of ten pages became a group
C6_Witness ==
    /\ pc = "outer"
    /\ Len(window_log) = 10
    /\ calls[Len(calls)].size = 10
    /\ total_pages - calls[Len(calls)].cursor > 10
    /\ \E k \in DOMAIN Groups : Len(Groups[k].page_indices) = 10

\* the inner for has ended with a window to accept
WindowAccepted == pc = "decide" /\ best_result # <<>>

\* the invoice number of the window about to be accepted
AcceptedNumber == best_result[1].data["invoice_number"]

\* an accepted window whose number is registered is merged: no group is
\* added, its pages go after those of the group registered under the number,
\* and no other group changes
MergesRegisteredWindow ==
    (WindowAccepted /\ AcceptedNumber \in DOMAIN session_invoices) =>
        LET k == session_invoices[AcceptedNumber] + 1
        IN  /\ Len(invoice_data_list') = Len(invoice_data_list)
            /\ invoice_data_list'[k].page_indices =
                  invoice_data_list[k].page_indices \o best_group
            /\ NumberOf(invoice_data_list[k]) = AcceptedNumber
            /\ \A j \in DOMAIN invoice_data_list :
                  j # k => invoice_data_list'[j] = invoice_data_list[j]

(* C7, as stated: an accepted window whose non-null invoice_number is       *)
(* already registered creates no group, its pages are appended after the    *)
(* existing group's page_indices, and at the end of the pass no two final   *)
(* groups have the same non-null invoice_number.                            *)
C7_NoDuplicateNonNull ==
    /\ [][MergesRegisteredWindow]_vars
    /\ [](pc = "segmented" =>
             \A j, k \in DOMAIN Groups :
                 (j # k /\ NumberOf(Groups[j]).kind # "null")
                     => NumberOf(Groups[j]) # NumberOf(Groups[k]))

(* C7, amended: an accepted window whose invoice_number is already          *)
(* registered creates no group and its pages are appended after the         *)
(* existing group's page_indices; at the end of the pass no two final       *)
(* groups have the same non-empty invoice_number. An empty-string number is *)
(* treated like null: it is never registered, so several final groups may   *)
(* carry it.                                                                *)
C7_NoDuplicateNonEmpty ==
    /\ [][MergesRegisteredWindow]_vars
    /\ [](pc = "segmented" =>
             \A j, k \in DOMAIN Groups :
                 (j # k /\ Truthy(NumberOf(Groups[j])))
                     => NumberOf(Groups[j]) # NumberOf(Groups[k]))

\* a finished pass in which the windows [0,1) and [2,3) carried the same
\* number and ended as one group with pages 0, 2, around another group
C7_Witness ==
    /\ pc = "segmented"
    /\ Len(Groups) = 2
    /\ Groups[1].page_indices = <<0, 2>>
    /\ Truthy(NumberOf(Groups[1]))
    /\ ItemsOf(Groups[1]).l = <<ItemOf(0, 1), ItemOf(2, 1)>>
    /\ Truthy(NumberOf(Groups[2]))

(* C8: an accepted window whose invoice_number is null becomes a final      *)
(* group of its own, is never registered in the SessionIndex, and its       *)
(* page_indices and record are never changed by a later accepted window.    *)
C8_NullNeverMerged ==
    /\ [](/\ None \notin DOMAIN session_invoices
          /\ \A num \in DOMAIN session_invoices :
                /\ session_invoices[num] + 1 \in DOMAIN Groups
                /\ NumberOf(Groups[session_invoices[num] + 1]) = num)
    /\ [][(WindowAccepted /\ AcceptedNumber = None) =>
             /\ invoice_data_list' =
                   Append(invoice_data_list,
                          [invoice_data |-> RecordOf(best_result[1]),
                           page_indices |-> best_group])
             /\ session_invoices' = session_invoices]_vars
    /\ [][\A k \in DOMAIN invoice_data_list :
             NumberOf(invoice_data_list[k]) = None =>
                 /\ k \in DOMAIN invoice_data_list'
                 /\ invoice_data_list'[k] = invoice_data_list[k]]_vars

\* a finished pass with a group without number, followed by two windows
\* that were merged with each other and not with it
C8_Witness ==
    /\ pc = "segmented"
    /\ Len(Groups) = 2
    /\ NumberOf(Groups[1]) = None
    /\ Groups[1].page_indices = <<0>>
    /\ ItemsOf(Groups[1]).l = <<ItemOf(0, 1)>>
    /\ Groups[2].page_indices = <<1, 2>>
    /\ Len(ItemsOf(Groups[2]).l) = 2

\* a populated scalar: any value but null and the empty string, the number 0
\* included
Populated(v) == v.kind # "null" /\ v # Str("")

(* C9: merge_invoice_data(A, B) never clears or overwrites a populated      *)
(* scalar field of A: if A's value is populated (anything but null and the  *)
(* empty string, a numeric 0 included) the merged value is A's; B's value   *)
(* is used only when A's field is empty or null.                            *)
C9_ScalarsKept ==
    mpc = "merged" =>
        \A f \in ScalarFields :
            /\ Populated(merge_in[1][f]) => merged_data[f] = merge_in[1][f]
            /\ merged_data[f] # merge_in[1][f] =>
                  /\ ~Populated(merge_in[1][f])
                  /\ merged_data[f] = merge_in[2][f]

\* the line items of a group are in the order of the windows they came from
ItemsInAcceptOrder(group) ==
    LET q == ItemsOf(group).l
    IN  \A j \in 1..(Len(q) - 1) : q[j] < q[j + 1]

(* C10: for records A and B (line_items being lists),                       *)
(* merge_invoice_data(A, B).line_items is A's line_items in their order     *)
(* followed by B's in their order, nothing dropped, reordered or            *)
(* deduplicated, so its length is the sum of the two lengths; over a pass a *)
(* final group's line_items are in the order its windows were accepted.     *)
C10_LineItemsConcatenated ==
    /\ (/\ mpc = "merged"
        /\ merge_in[1]["line_items"].kind = "list"
        /\ merge_in[2]["line_items"].kind = "list")
          => /\ merged_data["line_items"] =
                   List(merge_in[1]["line_items"].l
                        \o merge_in[2]["line_items"].l)
             /\ Len(merged_data["line_items"].l) =
                   Len(merge_in[1]["line_items"].l)
                      + Len(merge_in[2]["line_items"].l)
    /\ \A k \in DOMAIN Groups : ItemsInAcceptOrder(Groups[k])

\* a merge of two lists that share an item and are not sorted
C10_Witness ==
    /\ mpc = "merged"
    /\ merge_in[1]["line_items"] = List(<<2, 1>>)
    /\ merge_in[2]["line_items"] = List(<<1, 2>>)
    /\ merged_data["line_items"] = List(<<2, 1, 1, 2>>)

(* ------------------------- the attempt's lifecycle --------------------- *)

\* the status reports other than 'processing'
IsTerminal(report) == report.status \in {"success", "failed"}

TerminalReports == SelectSeq(status_log, IsTerminal)

\* process_pdf has returned or raised
AttemptOver == pc \in {"returned", "reraised", "exit"}

\* every final group has its PDF and JSON on disk
AllGroupsWritten == Len(output_files) = Len(Groups)

(* C11: the terminal status reported for an attempt is 'success' if and    *)
(* only if at least one group was emitted and its artifacts written; in     *)
(* every other case (zero groups, or an integrity, render or other abort)   *)
(* it is 'failed'.                                                          *)
C11_SuccessIffGroupWritten ==
    \A k \in DOMAIN TerminalReports :
        (TerminalReports[k].status = "success")
            <=> (Len(Groups) >= 1 /\ AllGroupsWritten)

(* C12: every attempt aborted by an integrity error (repair failed), a      *)
(* render error (rasterization failed) or a validation error (metadata      *)
(* without a file URL, raised by the front-end before any page work)        *)
(* reports the attachment status 'failed'.                                  *)
C12_FatalErrorsReportFailed ==
    (pc = "exit" /\ abort \in {"integrity", "render", "validation"})
        => \E k \in DOMAIN status_log : status_log[k].status = "failed"

(* C13: in every run of process_pdf 'processing' is reported before the     *)
(* integrity check, rasterization or any oracle call; after it exactly one  *)
(* terminal status ('success' or 'failed', never both) is reported, on      *)
(* every path including repair failure, render failure and unexpected       *)
(* exceptions; no status is reported after the terminal one.                *)
C13_StatusOrdering ==
    /\ (pc \notin {"main", "start", "exit"} \/ calls # <<>>)
          => status_log # <<>>
    /\ status_log # <<>> => status_log[1].status = "processing"
    /\ \A k \in 2..Len(status_log) : IsTerminal(status_log[k])
    /\ Len(status_log) <= 2
    /\ (AttemptOver /\ abort # "validation") => Len(status_log) = 2

\* an oracle answer made process_pdf raise: 'processing', then 'failed'
C13_Witness ==
    /\ pc = "reraised"
    /\ calls # <<>>
    /\ Len(status_log) = 2
    /\ status_log[2].status = "failed"

(* C14: whatever an oracle call does (raises, times out, returns text that  *)
(* is not JSON, or JSON that is not a well-formed result object), the call  *)
(* is replaced by the neutral default (start, complete, confidence 0.0, no  *)
(* invoice number) and process_pdf continues; no attempt ends with an       *)
(* exception or status 'failed' because of an oracle result.                *)
C14_OracleNeverFatal ==
    /\ \A k \in DOMAIN window_log :
          \/ window_log[k].dict /\ window_log[k].confidence # "bad"
          \/ window_log[k] = DefaultResult
    /\ pc \notin {"raised", "reraised"}
    /\ abort # "exception"

\* the result of an oracle call that raised
IsNeutralDefault(result) ==
    /\ result.is_invoice_start
    /\ result.is_complete_invoice
    /\ result.confidence = "zero"
    /\ result.data["invoice_number"] = None

(* C15: if the oracle errors on every call, segmenting an N-page document   *)
(* makes exactly N oracle calls and yields exactly N final groups [0], [1], *)
(* ..., [N-1], each a singleton with null invoice_number taken from a       *)
(* default result with confidence 0; none of them is merged with another.   *)
C15_ForcedProgress ==
    all_errors =>
        /\ \A k \in DOMAIN calls : calls[k].pages = <<k - 1>>
        /\ \A k \in DOMAIN window_log : IsNeutralDefault(window_log[k])
        /\ \A k \in DOMAIN Groups :
              /\ Groups[k].page_indices = <<k - 1>>
              /\ NumberOf(Groups[k]) = None
        /\ Len(Groups) \in {Len(calls) - 1, Len(calls)}
        /\ pc \in {"outer", "segmented"} => Len(Groups) = Len(calls)
        /\ pc # "raised"
        /\ pc = "segmented" =>
              /\ Len(calls) = total_pages
              /\ Len(Groups) = total_pages

\* a document of at least two pages segmented with every call failing
C15_Witness ==
    /\ pc = "segmented"
    /\ all_errors
    /\ total_pages >= 2
    /\ Len(calls) = total_pages

\* what can make process_pdf raise: an oracle answer that is not an object,
\* an accepted answer whose confidence is not a number, or a group whose
\* invoice number is a number
RaisedByOracleAnswer ==
    \/ window_log # <<>> /\ ~window_log[Len(window_log)].dict
    \/ best_result # <<>> /\ best_result[1].confidence = "bad"
    \/ /\ group_idx \in DOMAIN Groups
       /\ NumberOf(Groups[group_idx]).kind = "num"

(* C16: a failure of the status PATCH, of an S3 upload of any group, or of  *)
(* record creation (batch or single) is absorbed; it does not stop          *)
(* segmentation or the writing of any remaining group's artifacts, does not *)
(* change the list of artifact paths process_pdf returns, and does not      *)
(* change the terminal status.                                              *)
C16_GatewayFailuresAbsorbed ==
    /\ pc \in {"raised", "reraised"} => RaisedByOracleAnswer
    /\ pc = "write" => Len(output_files) = group_idx - 1
    /\ (AttemptOver /\ abort = "none") =>
          /\ Len(output_files) = Len(Groups)
          /\ returned = output_files
          /\ Len(status_log) = 2
          /\ status_log[2].status = "success"

\* two groups written and returned although no PATCH was delivered, the
\* first group's PDF upload failed and no record was created
C16_Witness ==
    /\ pc = "returned"
    /\ abort = "none"
    /\ Len(returned) = 2
    /\ ~status_log[1].delivered
    /\ ~status_log[2].delivered
    /\ Len(batch_invoices) = 1
    /\ Cardinality(s3) = 2
    /\ records = {}

C18_OneArtifactPairPerGroup ==
    /\ \A j \in DOMAIN output_files, k \in DOMAIN output_files :
          j # k => output_files[j] # output_files[k]
    /\ (AttemptOver /\ abort = "none") =>
          Cardinality({output_files[k] : k \in DOMAIN output_files})
              = Len(Groups)

(* --------------------------- two attachments --------------------------- *)

\* the pages in the groups of the call for attachment a
PagesOf(a) ==
    UNION {{g.page_indices[j] : j \in DOMAIN g.page_indices} :
              g \in {instances[a].invoice_data_list[k] :
                        k \in DOMAIN instances[a].invoice_data_list}}

\* the invoice numbers the oracle answered the call for attachment a with
AnsweredIn(a) ==
    {instances[a].answered[k] : k \in DOMAIN instances[a].answered}

\* how many windows of the call for attachment a had no invoice number
NullAnswers(a) ==
    Cardinality({k \in DOMAIN instances[a].answered :
                    instances[a].answered[k] = None})

(* C19: two pipeline instances processing different attachment ids, in any  *)
(* interleaving, never read or write each other's session index and never   *)
(* write the same output path or S3 key; groups of different attachments    *)
(* that carry the same invoice number are never merged.                     *)
C19_Isolation ==
    /\ [](\A v \in disk_writes, w \in disk_writes :
             v.path = w.path => v.by = w.by)
    /\ [](\A v \in bucket_writes, w \in bucket_writes :
             v.key = w.key => v.by = w.by)
    /\ [](\A a \in DOMAIN instances :
             /\ DOMAIN instances[a].session_invoices
                   = AnsweredIn(a) \ {None}
             /\ PagesOf(a) = 0..(instances[a].i - 1)
             /\ Len(instances[a].invoice_data_list)
                   = NullAnswers(a) + Cardinality(AnsweredIn(a) \ {None}))
    /\ [][\A a \in DOMAIN instances :
             a # actor' => instances'[a] = instances[a]]_vars

\* both calls have finished, each with a two-page group numbered A, written
\* under the same file name
C19_Witness ==
    /\ \A a \in PairIds :
          /\ instances[a].pc = "done"
          /\ Len(instances[a].invoice_data_list) = 1
          /\ instances[a].invoice_data_list[1].page_indices = <<0, 1>>
          /\ instances[a].answered = <<Str("A"), Str("A")>>
    /\ \E v \in disk_writes, w \in disk_writes :
          v.path.name = w.path.name /\ v.by # w.by

(* ------------------------------ the worker ----------------------------- *)

(* C20: after the SQS worker receives SIGTERM or SIGINT it starts           *)
(* processing no further message and issues no further receive after the    *)
(* current one returns; a message whose processing was in flight runs to    *)
(* completion (and is deleted if it succeeded); a message received but not  *)
(* yet started is left in the queue; the run loop then terminates.          *)
C20_CoarseCancellation ==
    /\ [][signalled => ~(wpc # "processing" /\ wpc' = "processing")]_vars
    /\ [][signalled => ~(wpc # "receiving" /\ wpc' = "receiving")]_vars
    /\ [][wpc = "processing" => wpc' \in {"processing", "processed"}]_vars
    /\ [][(wpc = "processed" /\ wpc' # "processed" /\ msg_success)
             => Head(messages) \in deleted']_vars
    /\ [][queue' # queue => wpc = "processed" /\ msg_success]_vars
    /\ [][(signalled /\ wpc = "while" /\ wpc' # "while")
             => wpc' = "stopped"]_vars

\* C21: whichever way one attachment fails (body, metadata fetch, download,
\* integrity, repair, render, or an exception out of process_pdf),
\* process_message returns False without raising; the message is then left
\* in the queue and the worker goes on polling; the run loop ends only
\* once the running flag was cleared by a stop signal.
C21_WorkerSurvivesFailures ==
    /\ [][wpc = "processing" /\ wpc' # "processing"
          => /\ wpc' = "processed"
             /\ msg_success' = (attempt' = "returned_files")]_vars
    /\ [][wpc = "processed" /\ ~msg_success /\ wpc' # "processed"
          => wpc' = "for" /\ deleted' = deleted /\ queue' = queue]_vars
    /\ [][wpc = "for" /\ wpc' # "for" => wpc' \in {"while", "processing"}]_vars
    /\ [][wpc = "while" /\ running /\ wpc' # "while"
          => wpc' = "receiving"]_vars
    /\ [][running /\ ~running' => signalled']_vars
    /\ [][wpc # "stopped" /\ wpc' = "stopped" => signalled /\ ~running]_vars

\* an exception out of process_pdf was absorbed and the worker, never
\* signalled, has issued the next receive_message call
C21_Witness ==
    /\ attempt = "process_pdf_raised"
    /\ ~msg_success
    /\ wpc = "receiving"
    /\ running
    /\ ~signalled
    /\ deleted = {}

(* --------------------- integrity guard and artifact phase -------------- *)

\* the entries of events made by the operations in ops
EventsOf(ops) == SelectSeq(events, LAMBDA e : e.op \in ops)

\* C22: in one process_pdf attempt repair_pdf is called at most once and
\* check_pdf_corruption is evaluated at most twice, first on the original
\* and, only after the repair, on the repaired copy; after a failed repair
\* there is no further repair, no rasterization and no oracle call.
C22_IntegrityGuardOnce ==
    LET guard == EventsOf({"check", "repair"})
    IN  /\ Len(EventsOf({"repair"})) <= 1
        /\ Len(EventsOf({"check"})) <= 2
        /\ guard # <<>> => guard[1] = Ev("check", 0, guard[1].ok)
        /\ \A k \in 2..Len(guard) :
              /\ guard[k].op = "check" =>
                    guard[k].arg = 1 /\ guard[k - 1].op = "repair"
              /\ guard[k].op = "repair" =>
                    guard[k - 1] = Ev("check", 0, FALSE)
        /\ abort = "integrity" =>
              /\ calls = <<>>
              /\ EventsOf({"render"}) = <<>>
              /\ events[Len(events)].op = "report_failed"
              /\ \E k \in DOMAIN events :
                    /\ events[k] = Ev("repair", 0, FALSE)
                    /\ \A j \in (k + 1)..Len(events) :
                          events[j].op \in {"check", "report_failed"}

\* the repair produced a copy that is still invalid: two checks, one repair,
\* and the attempt is over without rendering
C22_Witness ==
    /\ abort = "integrity"
    /\ pc = "exit"
    /\ Len(EventsOf({"check"})) = 2
    /\ Len(EventsOf({"repair"})) = 1

\* the operations of the artifact phase
ArtifactOps == {"extract", "json", "upload_pdf", "upload_json"}
PostOps == {"post_batch", "post_single"}

\* the place of an entry in the order the phase prescribes: group by group,
\* extract, serialize, upload PDF, upload JSON; then the POSTs; then 'success'
PhaseRank(e) ==
    CASE e.op = "extract" -> 10 * e.arg + 1
      [] e.op = "json" -> 10 * e.arg + 2
      [] e.op = "upload_pdf" -> 10 * e.arg + 3
      [] e.op = "upload_json" -> 10 * e.arg + 4
      [] e.op = "post_batch" -> 1000
      [] e.op = "post_single" -> 1000 + e.arg
      [] e.op = "report_success" -> 2000

Happened(op, k) == \E n \in DOMAIN events : events[n].op = op /\ events[n].arg = k

\* nothing of the artifact phase before the segmentation loop is over; group
\* by group and step by step in the prescribed order; the POSTs after every
\* group's uploads, 'success' after the POSTs
PhaseInOrder ==
    LET phase == EventsOf(ArtifactOps \cup PostOps \cup {"report_success"})
        groups == 1..Len(invoice_data_list)
    IN  /\ phase # <<>> =>
              /\ i >= total_pages
              /\ pc \in {"write", "raised", "reraised", "returned", "exit"}
        /\ \A n \in 1..(Len(phase) - 1) :
              PhaseRank(phase[n]) < PhaseRank(phase[n + 1])
        /\ \A n \in DOMAIN phase :
              /\ phase[n].op \in ArtifactOps => phase[n].arg \in groups
              /\ phase[n].op = "json" => Happened("extract", phase[n].arg)
              /\ phase[n].op = "upload_pdf" => Happened("json", phase[n].arg)
              /\ phase[n].op = "upload_json" =>
                    Happened("upload_pdf", phase[n].arg)
              /\ (phase[n].op = "extract" /\ phase[n].arg > 1) =>
                    Happened("upload_pdf", phase[n].arg - 1)
              /\ phase[n].op \in PostOps \cup {"report_success"} =>
                    \A k \in groups : Happened("upload_pdf", k)

\* C23 as stated: the artifact phase is sequential, and 'success' is
\* reported only after a record creation request was made.
C23_SuccessAfterRecordCreation ==
    /\ PhaseInOrder
    /\ Happened("report_success", 0) => Happened("post_batch", 0)

\* a group whose PDF and JSON were both uploaded
Uploaded(k) ==
    /\ \E n \in DOMAIN events : events[n] = Ev("upload_pdf", k, TRUE)
    /\ \E n \in DOMAIN events : events[n] = Ev("upload_json", k, TRUE)

\* C23, amended: no artifact is written or uploaded before the segmentation
\* of all pages is over; then for each final group in order the PDF is
\* extracted, the JSON written, the PDF and (unless that upload failed) the
\* JSON uploaded, before the next group is started; record creation is
\* requested after all groups' uploads, and only when some group's two
\* uploads succeeded; 'success' is reported after that step, whether or not
\* it made a request.
C23_SequentialArtifactPhase ==
    /\ PhaseInOrder
    /\ Happened("post_batch", 0) =>
          \E k \in 1..Len(invoice_data_list) : Uploaded(k)
    /\ Happened("report_success", 0) =>
          /\ (\E k \in 1..Len(invoice_data_list) : Uploaded(k))
                => Happened("post_batch", 0)
          /\ events[Len(events)].op = "report_success"

\* two groups, the first one's upload failed, the second one's record was
\* requested, then 'success'
C23_Witness ==
    /\ pc = "returned"
    /\ Len(invoice_data_list) = 2
    /\ ~Uploaded(1)
    /\ Uploaded(2)
    /\ Happened("post_batch", 0)
    /\ Happened("report_success", 0)

\* C24: create_invoice_records_batch with a non-empty batch makes exactly one
\* batch POST, first; when it succeeds there is no per-record POST; when it
\* fails, with a 404 or in any other way, every invoice of the batch is
\* POSTed on its own exactly once, in order, whether or not an earlier one
\* failed; the function does not raise; with an empty batch no request is
\* made.
C24_BatchFallback ==
    LET posts == EventsOf(PostOps)
        done == pc \in {"returned", "exit"} /\ abort = "none"
    IN  /\ Len(EventsOf({"post_batch"})) <= 1
        /\ (done /\ batch_invoices # <<>>) =>
              /\ posts # <<>>
              /\ posts[1].op = "post_batch"
              /\ IF posts[1].ok
                 THEN Len(posts) = 1
                 ELSE /\ Len(posts) = 1 + Len(batch_invoices)
                      /\ \A k \in DOMAIN batch_invoices :
                            /\ posts[1 + k].op = "post_single"
                            /\ posts[1 + k].arg = k
        /\ (done /\ batch_invoices = <<>>) => posts = <<>>
        /\ posts # <<>> => pc \in {"returned", "exit"}
        /\ \A outcome \in BatchOutcomes :
              create_invoice_records_batch(<<>>, outcome, {}).posts = <<>>

\* the batch POST failed, the first individual POST failed too, and the
\* second one was still made
C24_Witness ==
    LET posts == EventsOf(PostOps)
    IN  /\ pc = "returned"
        /\ Len(posts) = 3
        /\ ~posts[1].ok
        /\ posts[2] = Ev("post_single", 1, FALSE)
        /\ posts[3] = Ev("post_single", 2, TRUE)

(* ------------------------------ front-ends ----------------------------- *)

\* C25: cli.main exits with 0 if and only if process_pdf returned at least
\* one artifact, with a non-zero code when it returned none or anything
\* raised; exit code 0 never goes with a terminal status other than
\* 'success', nor a non-zero code with 'success'.
C25_ExitCodeMatchesStatus ==
    pc = "exit" =>
        /\ exit_code = 0 <=> (abort = "none" /\ returned # <<>>)
        /\ exit_code \in {0, 1}
        /\ \A k \in DOMAIN TerminalReports :
              (exit_code = 0) <=> (TerminalReports[k].status = "success")

(* -------------------------------- the files ---------------------------- *)

\* the JSON files on disk
WrittenRecords == {disk[path].json : path \in DOMAIN disk}

\* C27: every written record has every InvoiceRecord field, in the same
\* fixed order, with null for each scalar the oracle did not supply, and
\* with line_items an array, never null and never missing, whatever fields
\* the accepted answers carried and whether or not the group was merged.
C27_RecordShape ==
    \A text \in WrittenRecords :
        /\ Len(text) >= Len(FieldOrder)
        /\ \A k \in DOMAIN FieldOrder :
              /\ text[k].key = FieldOrder[k]
              /\ (FieldOrder[k] \notin {"invoice_number", "line_items"})
                    => text[k].value.type = "null"
              /\ FieldOrder[k] = "invoice_number"
                    => text[k].value.type \in {"null", "string"}
              /\ FieldOrder[k] = "line_items"
                    => text[k].value.type = "array"

\* C28 as stated: extract_pages_to_pdf(doc, indices) writes exactly
\* doc[indices[0]], doc[indices[1]], ..., one output page per given index
\* and no other page.
C28_OnePagePerIndex ==
    output_pdf.state # "none" =>
        /\ output_pdf.state = "written"
        /\ Len(output_pdf.pages) = Len(page_indices)
        /\ \A k \in DOMAIN page_indices :
              output_pdf.pages[k] = page_indices[k]

\* C28, amended: extract_pages_to_pdf writes, in the order given, the page
\* of every index below the page count of the document and silently leaves
\* out every index at or beyond it; the PDF written for a final group has
\* exactly len(page_indices) pages, the group's pages in page_indices order.
C28_ExtractionFidelity ==
    /\ output_pdf.state # "none" =>
          /\ output_pdf.state = "written"
          /\ output_pdf.pages =
                SelectSeq(page_indices, LAMBDA idx : idx < Len(input_pdf))
    /\ \A g \in 1..(group_idx - 1) :
          \E path \in DOMAIN disk :
              /\ path = output_files[g]
              /\ (\A h \in (g + 1)..(group_idx - 1) : output_files[h] # path)
                    => /\ Len(disk[path].pdf)
                            = Len(invoice_data_list[g].page_indices)
                       /\ disk[path].pdf = invoice_data_list[g].page_indices

\* of the indices 1 and 2 only 1 is within a document of two pages
C28_Witness ==
    /\ output_pdf.state = "written"
    /\ page_indices = <<1, 2>>
    /\ Len(input_pdf) = 2
    /\ output_pdf.pages = <<1>>

EntriesOf(k) ==
    {<<"processed", n>> : n \in {m \in DOMAIN processed_attachments :
                                    processed_attachments[m].record = k}}
    \cup {<<"failed", n>> : n \in {m \in DOMAIN failed_attachments :
                                      failed_attachments[m].record = k}}

\* C26: when handler returns, every record of the event has exactly one
\* entry, in processed_attachments or in failed_attachments, so
\* processed_count + failed_count is the number of records and the counts
\* are the lengths of the lists; a record is in processed_attachments if
\* and only if process_pdf returned at least one artifact for it; no
\* record's failure keeps a later record from being processed.
C26_LambdaSummary ==
    response.statusCode # 0 =>
        /\ response.processed_count + response.failed_count
              = Len(event_records)
        /\ response.processed_count = Len(processed_attachments)
        /\ response.failed_count = Len(failed_attachments)
        /\ \A k \in DOMAIN event_records :
              /\ Cardinality(EntriesOf(k)) = 1
              /\ (\E n \in DOMAIN processed_attachments :
                     processed_attachments[n].record = k)
                    <=> event_records[k] = "returned_files"

(* ------------------------------- redelivery ---------------------------- *)

\* the segmentation loop of the call under way is over
SegmentationOver == pc \in {"segmented", "write"}

EndedFailed ==
    /\ AttemptOver
    /\ TerminalReports # <<>>
    /\ TerminalReports[Len(TerminalReports)].status = "failed"

(* C31: whenever a process_pdf attempt ends with status 'failed' (repair    *)
(* failure, rasterization failure also after a successful repair, or an     *)
(* unexpected exception during segmentation or artifact writing), the       *)
(* errors folder of that attachment contains a copy of the original input   *)
(* document.                                                                *)
C31_ErrorsFolderOnEveryFailure ==
    EndedFailed => "original" \in errors_dir

(* ------------------------- queue acknowledgement ----------------------- *)

\* the worker leaves the message it has just processed
LeavesMessage == wpc = "processed" /\ wpc' # "processed"

\* delete_message is called, and messages leave the queue, only for the
\* message in hand, after its process_message call, and only when that call
\* returned True because process_pdf returned files
OnlyAfterSuccess ==
    \A m \in (deleted' \ deleted) \cup (queue \ queue') :
        /\ wpc = "processed"
        /\ m = Head(messages)
        /\ msg_success
        /\ attempt = "returned_files"

\* a message whose processing failed is neither deleted nor removed
FailedStays ==
    (LeavesMessage /\ attempt # "returned_files")
        => deleted' = deleted /\ queue' = queue

\* C32 as stated: the worker deletes a message from the queue if and only
\* if process_message returned True for it; a message whose processing
\* failed or raised is never deleted and stays in the queue; no message is
\* deleted before its processing has finished.
C32_DeletedIffSucceeded ==
    /\ [][OnlyAfterSuccess]_vars
    /\ [][FailedStays]_vars
    /\ [][(LeavesMessage /\ attempt = "returned_files")
             => Head(messages) \notin queue']_vars

(* C32, amended: the worker calls delete_message for a message if and only  *)
(* if process_message returned True for it (the attachment was processed    *)
(* and at least one artifact produced); the message leaves the queue only   *)
(* when that call succeeds, and stays in the queue when the call fails; a   *)
(* message whose processing failed or raised is never deleted and stays in  *)
(* the queue for redelivery; no message is deleted before its processing    *)
(* has finished.                                                            *)
C32_QueueAcknowledgement ==
    /\ [][OnlyAfterSuccess]_vars
    /\ [][FailedStays]_vars
    /\ [][(LeavesMessage /\ attempt = "returned_files")
             => Head(messages) \in deleted']_vars
    /\ [][queue' \subseteq queue /\ deleted \subseteq deleted']_vars
    /\ []((1..QueueLen) \ queue \subseteq deleted)

\* one message was processed with files and deleted; the other one's
\* process_pdf call returned no files and the message is still in the queue
C32_Witness ==
    /\ wpc = "for"
    /\ messages = <<>>
    /\ attempt = "returned_empty"
    /\ Cardinality(deleted) = 1
    /\ Cardinality(queue) = QueueLen - 1
    /\ deleted \cap queue = {}

(* ------------------------ where record data goes ----------------------- *)

\* the requests of the attempt that carry extracted invoice data
RecordRequests ==
    SelectSeq(events, LAMBDA e : e.op \in {"post_single", "post_batch"})

(* C33: every request that carries extracted invoice data (single-record    *)
(* POST and batch POST) is addressed to the persistent record gateway under *)
(* the configured API_URL, and the batch POST uses the same gateway base as *)
(* the single-record POST; no invoice data is sent to any other host.       *)
C33_RecordDataToConfiguredGateway ==
    \A k \in DOMAIN RecordRequests :
        /\ RequestUrl(RecordRequests[k].op).base = ApiUrl
        /\ RequestUrl(RecordRequests[k].op).base
              = RequestUrl("post_single").base

(* -------------------------------- repair ------------------------------- *)

\* the document at the path repair_pdf was given is what it was at the call
OriginalUntouched ==
    /\ repair_input \in DOMAIN file_system
    /\ file_system[repair_input] \in CorruptKinds
    /\ repair_reader # "none" => file_system[repair_input] = repair_reader

(* C34: repair_pdf never modifies or deletes the document at the path it    *)
(* was given, for any input path; on success it returns the path of a       *)
(* separate repaired document that passes the integrity check; on failure   *)
(* (still invalid, or any error while rebuilding) no repaired artifact      *)
(* remains on disk and an error is returned.                                *)
C34_RepairLeavesOriginal ==
    repair_pc # "off" =>
        /\ OriginalUntouched
        /\ (repair_pc = "done" /\ repair_result.success) =>
              /\ repair_result.path # repair_input
              /\ repair_result.path \in DOMAIN file_system
              /\ file_system[repair_result.path] = "rebuilt"
        /\ (repair_pc = "done" /\ ~repair_result.success) =>
              /\ DOMAIN file_system = {repair_input}
              /\ repair_result.path = <<>>

(* --------------------- records and uploaded artifacts ------------------ *)

\* the positions of the groups written so far whose two uploads succeeded
UploadedGroups ==
    SelectSeq([k \in 1..Len(output_files) |-> k], Uploaded)

\* the key is the one an upload of the group at position k used: it is in
\* the bucket, under the attachment's prefix, and named as the local file
KeyOfGroup(key, k, ext) ==
    /\ key \in s3
    /\ key.attachment_id = AttachmentId
    /\ key.name = output_files[k].name
    /\ key.ext = ext

(* C35: a final group is included in the record-creation batch if and only  *)
(* if both its PDF upload and its JSON upload succeeded, and the s3_pdf_key  *)
(* and s3_json_key sent with its record are the keys those two uploads      *)
(* used; a group whose upload failed is still written locally and still     *)
(* counted in the returned artifact list, but no record is created for it.  *)
C35_RecordsOnlyForUploaded ==
    /\ Len(batch_invoices) = Len(UploadedGroups)
    /\ \A j \in DOMAIN batch_invoices :
          /\ batch_invoices[j].invoice_data
                = Groups[UploadedGroups[j]].invoice_data
          /\ batch_invoices[j].attachment_id = AttachmentId
          /\ KeyOfGroup(batch_invoices[j].s3_pdf_key, UploadedGroups[j], "pdf")
          /\ KeyOfGroup(batch_invoices[j].s3_json_key, UploadedGroups[j],
                        "json")
    /\ \A k \in DOMAIN output_files : output_files[k] \in DOMAIN disk
    /\ (AttemptOver /\ abort = "none") =>
          /\ returned = output_files
          /\ Len(returned) = Len(Groups)
    /\ records \subseteq DOMAIN batch_invoices
    /\ \A n \in DOMAIN events :
          events[n].op = "post_single" =>
              events[n].arg \in DOMAIN batch_invoices

\* two groups were written and returned; the PDF upload of the first one
\* failed, so the batch holds the second group only, and its record was
\* created
C35_Witness ==
    /\ pc = "returned"
    /\ Len(returned) = 2
    /\ ~Uploaded(1)
    /\ Uploaded(2)
    /\ Len(batch_invoices) = 1
    /\ batch_invoices[1].invoice_data = Groups[2].invoice_data
    /\ records = {1}

(* -------------------- failure attribution in the summary --------------- *)

(* C36: every entry of failed_attachments carries the attachment_id of the  *)
(* very record that failed, or null when that record's body could not be    *)
(* parsed; it never carries the attachment_id of a different record of the  *)
(* same event.                                                              *)
C36_FailureAttribution ==
    \A n \in DOMAIN failed_attachments :
        /\ failed_attachments[n].attachment_id
              \in {0, AttachmentOf(failed_attachments[n].record)}
        /\ event_records[failed_attachments[n].record] = "not_json"
              => failed_attachments[n].attachment_id = 0

(* --------------------------- temporary input --------------------------- *)

(* C37: in each front-end (CLI, SQS worker, Lambda handler), the downloaded *)
(* temporary PDF of an attachment is removed by the end of that             *)
(* attachment's attempt on every path, including when process_pdf raises    *)
(* or returns no artifacts.                                                 *)
C37_TempInputCleanup ==
    front_pc = "end" => \A f \in tmp_dir : f.path # attempt_no

(* ------------------------------- grouping ------------------------------ *)

\* the pages from 1 on whose analysis has is_invoice_start = true
MarkedStarts ==
    {p \in 1..(Len(analyses) - 1) :
        analyses[p + 1].is_invoice_start = Bool(TRUE)}

\* the first page of every group
OpeningPages == {invoice_groups[k][1] : k \in DOMAIN invoice_groups}

(* C38: for any list of n per-page analyses, the result of                  *)
(* group_pages_into_invoices is a partition of 0..n-1 into contiguous       *)
(* ascending groups listed in page order; page 0 always opens the first     *)
(* group regardless of its own analysis, a new group opens exactly at each  *)
(* page i >= 1 whose analysis has is_invoice_start = true, so the number of *)
(* groups is 1 plus the count of such pages; the empty list yields no       *)
(* groups.                                                                  *)
C38_GroupPages ==
    group_pc = "done" =>
        /\ \A k \in DOMAIN invoice_groups :
              /\ invoice_groups[k] # <<>>
              /\ \A j \in 1..(Len(invoice_groups[k]) - 1) :
                    invoice_groups[k][j + 1] = invoice_groups[k][j] + 1
        /\ \A k \in 1..(Len(invoice_groups) - 1) :
              invoice_groups[k + 1][1]
                 = invoice_groups[k][Len(invoice_groups[k])] + 1
        /\ analyses = <<>> => invoice_groups = <<>>
        /\ analyses # <<>> =>
              /\ invoice_groups # <<>>
              /\ invoice_groups[1][1] = 0
              /\ LET last == invoice_groups[Len(invoice_groups)]
                 IN  last[Len(last)] = Len(analyses) - 1
              /\ OpeningPages = {0} \cup MarkedStarts
              /\ Len(invoice_groups) = 1 + Cardinality(MarkedStarts)

\* three pages: page 0 says it starts nothing and still opens the first
\* group, page 1 starts the second one, page 2 (null) continues it
C38_Witness ==
    /\ group_pc = "done"
    /\ Len(analyses) = 3
    /\ analyses[1].is_invoice_start = Bool(FALSE)
    /\ analyses[2].is_invoice_start = Bool(TRUE)
    /\ analyses[3].is_invoice_start = None
    /\ invoice_groups = <<<<0>>, <<1, 2>>>>

(* --------------------- merge_invoice_data's arguments ------------------ *)

(* C39: merge_invoice_data is side-effect free on its inputs: for any       *)
(* records A and B, after merged = merge_invoice_data(A, B) both A and B    *)
(* (including their line_items lists) are unchanged, and later changes to   *)
(* merged do not alter A or B.                                              *)
C39_MergeLeavesInputs ==
    mpc = "merged" =>
        /\ existing_data = merge_in[1]
        /\ new_data = merge_in[2]

====
